---- MODULE Spec2Model ----
(***************************************************************************)
(* Model of the control-flow restructuring engine of revng-c:              *)
(* RegionCFG<NodeT> (include/revng-c/RestructureCFGPass/RegionCFGTreeImpl.h)*)
(* purgeDummies, purgeVirtualSink, cloneUntilExit, untangle, inflate,      *)
(* generateAst, removeNotReachables and isDAG.                             *)
(*                                                                         *)
(* A node is a natural number standing for a BasicBlockNode pointer; a      *)
(* graph is a record of the node vector and of per-node fields.  The       *)
(* dominator and post-dominator trees are recomputed from the graph by the *)
(* operators below at the places where the code calls recalculate().       *)
(***************************************************************************)
EXTENDS Integers, Sequences, FiniteSets, TLC

\* Number of nodes of the graphs handed to the pipeline.
MaxNodes == 4
\* Weight of the heavy node of an input graph (the others weigh 1).
MaxWeight == 3
\* Cap on the number of nodes ever allocated in one run.
MaxID == 30

\* The entry node of every input graph.
EntryNode == 1

Range(s) == {s[i] : i \in DOMAIN s}

Restrict(f, S) == [x \in S |-> f[x]]

Without(s, x) == SelectSeq(s, LAMBDA y : y # x)

RECURSIVE Reverse(_)
Reverse(s) == IF s = <<>> THEN <<>> ELSE Append(Reverse(Tail(s)), Head(s))

RECURSIVE SumOver(_, _)
SumOver(f, S) ==
  IF S = {} THEN 0
  ELSE LET x == CHOOSE y \in S : TRUE IN f[x] + SumOver(f, S \ {x})

\* Position of the first occurrence of x in s (0 when absent).
IndexOf(s, x) ==
  IF x \in Range(s) THEN CHOOSE i \in DOMAIN s : s[i] = x /\ \A j \in 1..(i - 1) : s[j] # x
  ELSE 0

InsertAt(s, i, x) == SubSeq(s, 1, i - 1) \o <<x>> \o SubSeq(s, i, Len(s))

(***************************************************************************)
(* Graph primitives.                                                       *)
(***************************************************************************)

Nodes(G) == Range(G.BlockNodes)

\* Node->successors() of a node that may already have been removed.
successors(G, n) == IF n \in DOMAIN G.Successors THEN G.Successors[n] ELSE <<>>

predecessors(G, n) == IF n \in DOMAIN G.Predecessors THEN G.Predecessors[n] ELSE {}

successor_size(G, n) == Len(successors(G, n))

predecessor_size(G, n) == Cardinality(predecessors(G, n))

isEmpty(G, n) == G.NodeType[n] = "Empty"

isCheck(G, n) == G.NodeType[n] = "Check"

getFalse(G, n) == G.Successors[n][1]

getTrue(G, n) == G.Successors[n][2]

\* BlockNodes.emplace_back of a fresh node without edges.
NewNode(G, type, weight, original) ==
  LET id == G.NextID IN
  [ BlockNodes |-> Append(G.BlockNodes, id),
    Successors |-> (id :> <<>>) @@ G.Successors,
    Predecessors |-> (id :> {}) @@ G.Predecessors,
    NodeType |-> (id :> type) @@ G.NodeType,
    Weight |-> (id :> weight) @@ G.Weight,
    Original |-> (id :> (IF original = 0 THEN id ELSE original)) @@ G.Original,
    NextID |-> id + 1 ]

addArtificialNode(G) == NewNode(G, "Empty", 0, 0)

cloneNode(G, n) == NewNode(G, G.NodeType[n], G.Weight[n], G.Original[n])

addSuccessor(G, a, b) ==
  IF b \in Range(G.Successors[a]) THEN G
  ELSE [G EXCEPT !.Successors[a] = Append(@, b)]

addPredecessor(G, b, a) ==
  IF b \in DOMAIN G.Predecessors THEN [G EXCEPT !.Predecessors[b] = @ \cup {a}] ELSE G

removePredecessor(G, b, a) ==
  IF b \in DOMAIN G.Predecessors THEN [G EXCEPT !.Predecessors[b] = @ \ {a}] ELSE G

removeSuccessor(G, a, b) ==
  IF a \in DOMAIN G.Successors THEN [G EXCEPT !.Successors[a] = Without(@, b)] ELSE G

addEdge(G, a, b) == addPredecessor(addSuccessor(G, a, b), b, a)

\* Successors[slot] = Succ on a Check node, and the back edge.
setSlot(G, a, slot, b) ==
  LET old == G.Successors[a]
      padded == IF Len(old) >= 2 THEN old ELSE old \o [i \in 1..(2 - Len(old)) |-> 0]
  IN addPredecessor([G EXCEPT !.Successors[a] = [padded EXCEPT ![slot] = b]], b, a)

setFalse(G, a, b) == setSlot(G, a, 1, b)

setTrue(G, a, b) == setSlot(G, a, 2, b)

\* moveEdgeTarget(EdgeDescriptor(a, b), c)
moveEdgeTarget(G, a, b, c) ==
  LET G1 == removePredecessor(G, b, a) IN
  IF isCheck(G1, a) /\ Len(G1.Successors[a]) = 2
  THEN IF getTrue(G1, a) = b THEN setTrue(G1, a, c)
       ELSE IF getFalse(G1, a) = b THEN setFalse(G1, a, c)
       ELSE G1
  ELSE addEdge(removeSuccessor(G1, a, b), a, c)

removeNode(G, n) ==
  LET G1 == [G EXCEPT !.Successors =
               [m \in DOMAIN @ |-> IF m \in G.Predecessors[n] THEN Without(@[m], n) ELSE @[m]]]
      G2 == [G1 EXCEPT !.Predecessors =
               [m \in DOMAIN @ |-> IF m \in Range(G.Successors[n]) THEN @[m] \ {n} ELSE @[m]]]
      keep == DOMAIN G.Successors \ {n}
  IN [ BlockNodes |-> Without(G2.BlockNodes, n),
       Successors |-> Restrict(G2.Successors, keep),
       Predecessors |-> Restrict(G2.Predecessors, keep),
       NodeType |-> Restrict(G2.NodeType, keep),
       Weight |-> Restrict(G2.Weight, keep),
       Original |-> Restrict(G2.Original, keep),
       NextID |-> G2.NextID ]

\* A successor list or a predecessor list of G holds a node that removeNode
\* has erased from BlockNodes.
Dangling(G) ==
  \E n \in DOMAIN G.Successors :
    \/ \E s \in Range(G.Successors[n]) : s \notin DOMAIN G.Successors
    \/ \E p \in G.Predecessors[n] : p \notin DOMAIN G.Successors

(***************************************************************************)
(* Reachability, dominance and post-dominance.                             *)
(***************************************************************************)

RECURSIVE ReachFrom(_, _, _, _)
ReachFrom(G, frontier, seen, avoid) ==
  IF frontier = {} THEN seen
  ELSE LET nxt == ((UNION {Range(successors(G, n)) : n \in frontier}) \ seen) \ avoid
       IN ReachFrom(G, nxt, seen \cup nxt, avoid)

\* Nodes reachable from src (src included) on paths that never enter avoid.
Reach(G, src, avoid) == IF src \in avoid THEN {} ELSE ReachFrom(G, {src}, {src}, avoid)

\* Nodes reachable from src in one step or more.
ReachStrict(G, src) ==
  LET s == Range(successors(G, src)) IN ReachFrom(G, s, s, {})

\* findReachableNodes(Source, Target): the nodes on a path from Source to Target.
findReachableNodes(G, Source, Target) ==
  {n \in Reach(G, Source, {}) : Target \in Reach(G, n, {})} \cup {Target}

isReachableFromEntry(G, n) == n \in Reach(G, EntryNode, {})

\* DT.dominates(A, B) of the dominator tree of G rooted at the entry.
dominates(G, A, B) ==
  IF A = B THEN TRUE
  ELSE IF ~isReachableFromEntry(G, B) THEN TRUE
  ELSE IF ~isReachableFromEntry(G, A) THEN FALSE
  ELSE B \notin Reach(G, EntryNode, {A})

\* The strict post-dominators of n with respect to the exit node Exit.
PostDominators(G, n, Exit) ==
  {d \in Nodes(G) \ {n} : Exit \notin Reach(G, n, {d})}

\* PDT[n]->getIDom()->getBlock(); 0 stands for the null block of the virtual root.
ImmediatePostDominator(G, n, Exit) ==
  LET pd == PostDominators(G, n, Exit) IN
  IF pd = {} THEN 0
  ELSE CHOOSE d \in pd : \A e \in pd \ {d} : e \in PostDominators(G, d, Exit)

\* The strict dominators of n in the dominator tree rooted at the entry.
Dominators(G, n) ==
  {d \in Reach(G, EntryNode, {}) \ {n} : n \notin Reach(G, EntryNode, {d})}

ImmediateDominator(G, n) ==
  LET ds == Dominators(G, n) IN
  IF ds = {} THEN 0
  ELSE CHOOSE d \in ds : \A e \in ds \ {d} : e \in Dominators(G, d)

\* llvm::post_order(Entry): depth first, children in successor order.
RECURSIVE PostOrder(_, _, _, _)
PostOrder(G, stack, visited, out) ==
  IF stack = <<>> THEN out
  ELSE LET top == stack[Len(stack)]
           n == top[1]
           i == top[2]
           rest == SubSeq(stack, 1, Len(stack) - 1)
       IN IF i > successor_size(G, n)
          THEN PostOrder(G, rest, visited, Append(out, n))
          ELSE LET c == successors(G, n)[i] IN
               IF c \in visited
               THEN PostOrder(G, Append(rest, <<n, i + 1>>), visited, out)
               ELSE PostOrder(G, Append(Append(rest, <<n, i + 1>>), <<c, 1>>),
                              visited \cup {c}, out)

\* llvm::ReversePostOrderTraversal RPOT(EntryNode)
ReversePostOrderTraversal(G) ==
  Reverse(PostOrder(G, <<<<EntryNode, 1>>>>, {EntryNode}, <<>>))

\* RegionCFG::orderNodes(L, DoReverse)
orderNodes(G, L, DoReverse) ==
  LET rpot == ReversePostOrderTraversal(G)
      order == IF DoReverse THEN Reverse(rpot) ELSE rpot
  IN SelectSeq(order, LAMBDA n : n \in L)

\* RegionCFG::isDAG(): no strongly connected component and no self-loop among
\* the nodes reached from the entry.
isDAG(G) == \A n \in Reach(G, EntryNode, {}) : n \notin ReachStrict(G, n)


\* The elements of a set of nodes in increasing order.
RECURSIVE SetToSeq(_)
SetToSeq(S) ==
  IF S = {} THEN <<>>
  ELSE LET x == CHOOSE y \in S : \A z \in S : y <= z IN <<x>> \o SetToSeq(S \ {x})

(***************************************************************************)
(* purgeDummies, purgeVirtualSink, cloneUntilExit.                         *)
(***************************************************************************)

\* A faulty scan condition that does not ask for an empty node.
isPurgeableAnyType(G, n) == predecessor_size(G, n) = 1 /\ successor_size(G, n) = 1

\* The condition of the scan of purgeDummies.
isPurgeable(G, n) ==
  isEmpty(G, n) /\ predecessor_size(G, n) = 1 /\ successor_size(G, n) = 1

\* A faulty purge that stops after the first node it removes.
purgeDummiesOnce(G, RemovedNodes) ==
  LET found == SelectSeq(G.BlockNodes, LAMBDA n : isPurgeable(G, n)) IN
  IF found = <<>> THEN [Graph |-> G, RemovedNodes |-> RemovedNodes]
  ELSE LET It == found[1]
           Predecessor == CHOOSE p \in G.Predecessors[It] : TRUE
           Successor == G.Successors[It][1]
       IN [Graph |-> removeNode(moveEdgeTarget(G, Predecessor, It, Successor), It),
           RemovedNodes |-> Append(RemovedNodes, It)]

\* RegionCFG::purgeDummies(): the graph left and the vector RemovedNodes.
RECURSIVE purgeDummiesFrom(_, _)
purgeDummiesFrom(G, RemovedNodes) ==
  LET found == SelectSeq(G.BlockNodes, LAMBDA n : isPurgeable(G, n)) IN
  IF found = <<>> THEN [Graph |-> G, RemovedNodes |-> RemovedNodes]
  ELSE LET It == found[1]
           Predecessor == CHOOSE p \in G.Predecessors[It] : TRUE
           Successor == G.Successors[It][1]
       IN purgeDummiesFrom(removeNode(moveEdgeTarget(G, Predecessor, It, Successor), It),
                           Append(RemovedNodes, It))

purgeDummies(G) == purgeDummiesFrom(G, <<>>)

\* A faulty first loop that does not enqueue the predecessors of an empty
\* node: the list holds the sink only.
PurgeListSinkOnly(G, WorkList, PurgeList) ==
  PurgeList \o SelectSeq(WorkList, LAMBDA n : isEmpty(G, n))

\* The PurgeList built by the first loop of purgeVirtualSink.
RECURSIVE PurgeListFrom(_, _, _)
PurgeListFrom(G, WorkList, PurgeList) ==
  IF WorkList = <<>> THEN PurgeList
  ELSE LET CurrentNode == WorkList[Len(WorkList)]
           rest == SubSeq(WorkList, 1, Len(WorkList) - 1)
       IN IF isEmpty(G, CurrentNode)
          THEN PurgeListFrom(G, rest \o SetToSeq(G.Predecessors[CurrentNode]),
                             Append(PurgeList, CurrentNode))
          ELSE PurgeListFrom(G, rest, PurgeList)

\* The second loop of purgeVirtualSink: removeNode on every entry of the list.
\* Freed counts the calls made on a node that was already removed.
RECURSIVE removeAll(_, _, _)
removeAll(G, PurgeList, Freed) ==
  IF PurgeList = <<>> THEN [Graph |-> G, Freed |-> Freed]
  ELSE IF Head(PurgeList) \in Nodes(G)
       THEN removeAll(removeNode(G, Head(PurgeList)), Tail(PurgeList), Freed)
       ELSE removeAll(G, Tail(PurgeList), Freed + 1)

\* A faulty purge of the sink that removes nothing.
purgeVirtualSinkNothing(G, SinkNode) == [Graph |-> G, Freed |-> 0]

\* RegionCFG::purgeVirtualSink(Sink)
purgeVirtualSink(G, Sink) == removeAll(G, PurgeListFrom(G, <<Sink>>, <<>>), 0)

\* The loop over the successors of CurrentNode in cloneUntilExit.
RECURSIVE cloneSuccessors(_, _, _, _)
cloneSuccessors(st, CurrentNode, i, Sink) ==
  IF i > Len(st.Graph.Successors[CurrentNode]) THEN st
  ELSE LET G == st.Graph
           Successor == G.Successors[CurrentNode][i]
           CurrentClone == st.CloneMap[CurrentNode]
       IN IF Successor = Sink
          THEN cloneSuccessors([st EXCEPT !.ConnectSink = TRUE], CurrentNode, i + 1, Sink)
          ELSE LET known == Successor \in DOMAIN st.CloneMap
                   SuccessorClone == IF known THEN st.CloneMap[Successor] ELSE G.NextID
                   G1 == IF known THEN G ELSE cloneNode(G, Successor)
                   matched == Len(G1.Successors[CurrentNode]) = 2
                              /\ (getTrue(G1, CurrentNode) = Successor
                                  \/ getFalse(G1, CurrentNode) = Successor)
                   G2 == IF isCheck(G1, CurrentClone) /\ ~matched THEN G1
                         ELSE IF isCheck(G1, CurrentClone)
                         THEN IF getTrue(G1, CurrentNode) = Successor
                              THEN setTrue(G1, CurrentClone, SuccessorClone)
                              ELSE IF getFalse(G1, CurrentNode) = Successor
                              THEN setFalse(G1, CurrentClone, SuccessorClone)
                              ELSE G1
                         ELSE addEdge(G1, CurrentClone, SuccessorClone)
               IN cloneSuccessors(
                    [ Graph |-> G2,
                      CloneMap |-> (Successor :> SuccessorClone) @@ st.CloneMap,
                      WorkList |-> Append(st.WorkList, Successor),
                      ConnectSink |-> st.ConnectSink,
                      Aborted |-> st.Aborted \/ (isCheck(G1, CurrentClone) /\ ~matched) ],
                    CurrentNode, i + 1, Sink)

\* The worklist loop of cloneUntilExit.
RECURSIVE cloneWorkList(_, _, _)
cloneWorkList(st, AlreadyProcessed, Sink) ==
  IF st.WorkList = <<>> THEN st
  ELSE LET CurrentNode == st.WorkList[Len(st.WorkList)]
           popped == [st EXCEPT !.WorkList = SubSeq(@, 1, Len(@) - 1)]
       IN IF CurrentNode \in AlreadyProcessed
          THEN cloneWorkList(popped, AlreadyProcessed, Sink)
          ELSE LET st1 == cloneSuccessors([popped EXCEPT !.ConnectSink = FALSE],
                                          CurrentNode, 1, Sink)
                   st2 == IF st1.ConnectSink
                          THEN [st1 EXCEPT !.Graph = addEdge(@, st1.CloneMap[CurrentNode], Sink)]
                          ELSE st1
               IN cloneWorkList(st2, AlreadyProcessed \cup {CurrentNode}, Sink)

\* RegionCFG::cloneUntilExit(Node, Sink): the graph with the clones, and the
\* clone of Node.
cloneUntilExit(G, Node, Sink) ==
  LET Clone == G.NextID
      st == cloneWorkList([ Graph |-> cloneNode(G, Node),
                            CloneMap |-> (Node :> Clone),
                            WorkList |-> <<Node>>,
                            ConnectSink |-> FALSE,
                            Aborted |-> FALSE ], {}, Sink)
  IN [Graph |-> st.Graph, Clone |-> Clone, Aborted |-> st.Aborted]

\* A faulty comparison that also holds for equal weights.
isGreaterOrEqual(Op1, Op2) == Op1 >= Op2

\* isGreater(Op1, Op2); the sums of the weights of the model stay far below
\* the width of unsigned.
isGreater(Op1, Op2) ==
  LET MultiplicativeFactor == 1 IN Op1 > (MultiplicativeFactor * Op2)


(***************************************************************************)
(* State.                                                                  *)
(***************************************************************************)

VARIABLES
  Graph,                    \* BlockNodes and the fields of every node
  Input,                    \* the graph the pipeline was started on
  pc,                       \* position in generateAst/inflate/untangle
  Sink,                     \* the virtual sink of the running pass (0: none)
  ConditionalNodes,         \* vector of the conditionals still to process
  PostDominatorMap,         \* conditional -> tracked post-dominator
  Split,                    \* what untangle computed for the last conditional
  Failure,                  \* the assertion or abort that stopped the run
  ConditionalNodesComplete, \* inflate: every conditional, clones included
  NodesEquivalenceClass,    \* inflate: original -> the node and its clones
  CloneToOriginalMap,       \* inflate: node -> original
  RevPostOrderList,         \* inflate: the std::list walked by ListIt
  Conditional,              \* inflate: the conditional being processed
  WorkList,                 \* inflate: nodes still to analyze
  Visited,                  \* inflate: nodes visited for Conditional
  ListIt,                   \* inflate: the element ListIt points to (0: end())
  Edit,                     \* inflate: what the last iteration did
  AST,                      \* generateAst: graph node -> AST node
  RootNode                  \* generateAst: the tree set as the root of the AST

untangleVars == <<Sink, ConditionalNodes, PostDominatorMap, Split>>

inflateVars == <<ConditionalNodesComplete, NodesEquivalenceClass, CloneToOriginalMap,
                 RevPostOrderList, Conditional, WorkList, Visited, ListIt, Edit>>

astVars == <<AST, RootNode>>

vars == <<Graph, Input, pc, Failure, untangleVars, inflateVars, astVars>>

(***************************************************************************)
(* Input graphs: single-entry DAGs in topological numbering.               *)
(***************************************************************************)

\* The successor lists a node i of an input graph may have.
SuccessorLists(i, N) ==
  ({<<>>} \cup {<<a>> : a \in (i + 1)..N})
    \cup {l \in {<<a, b>> : a, b \in (i + 1)..N} : l[1] # l[2]}

RECURSIVE SuccessorTables(_, _)
SuccessorTables(i, N) ==
  IF i > N THEN {<<>>}
  ELSE {<<l>> \o rest : l \in SuccessorLists(i, N), rest \in SuccessorTables(i + 1, N)}

\* The graph with N nodes, successor table succ, node types type and weights w.
MakeGraph(N, succ, type, w) ==
  [ BlockNodes |-> [i \in 1..N |-> i],
    Successors |-> [i \in 1..N |-> succ[i]],
    Predecessors |-> [i \in 1..N |-> {j \in 1..N : i \in Range(succ[j])}],
    NodeType |-> [i \in 1..N |-> type[i]],
    Weight |-> [i \in 1..N |-> w[i]],
    Original |-> [i \in 1..N |-> i],
    NextID |-> N + 1 ]

\* Types: a node with two successors is a Check or a Code node, at most one
\* of the nodes with one successor is Empty (an artificial node put on an
\* edge).
TypeTables(N, succ) ==
  LET two == {i \in 1..N : Len(succ[i]) = 2}
      base(checks, e) == [i \in 1..N |-> IF i \in checks THEN "Check"
                                           ELSE IF i = e THEN "Empty" ELSE "Code"]
      one == {i \in 1..N : Len(succ[i]) = 1}
  IN {base(checks, e) : checks \in SUBSET two, e \in {0} \cup one}

\* Weights: Empty nodes weigh 0, the other nodes 1, but for at most one
\* heavy node.
WeightTables(N, type) ==
  {[i \in 1..N |-> IF type[i] = "Empty" THEN 0 ELSE IF i = h THEN MaxWeight ELSE 1]
     : h \in 0..N}

UnitWeights(N, type) == [i \in 1..N |-> IF type[i] = "Empty" THEN 0 ELSE 1]

\* Every node of an input graph is reachable from the entry.
WellFormed(G) == Reach(G, EntryNode, {}) = Nodes(G)

NoSplit == [Conditional |-> 0, PostDominator |-> 0, ThenWeight |-> 0, ElseWeight |-> 0,
            OneWeight |-> 0, TwoWeight |-> 0, ThreeWeight |-> 0, Clones |-> 0]

\* No AST node: a null ASTNode pointer.
NoTree == [Kind |-> "Null"]

NoEdit == [Kind |-> "none", Candidate |-> 0, New |-> 0, IsPostDom |-> FALSE, Removed |-> <<>>]

StartAt(G, where) ==
  /\ Input = G
  /\ Graph = G
  /\ pc = where
  /\ Sink = 0
  /\ ConditionalNodes = <<>>
  /\ PostDominatorMap = <<>>
  /\ Split = NoSplit
  /\ Failure = ""
  /\ ConditionalNodesComplete = {}
  /\ NodesEquivalenceClass = <<>>
  /\ CloneToOriginalMap = <<>>
  /\ RevPostOrderList = <<>>
  /\ Conditional = 0
  /\ WorkList = {}
  /\ Visited = {}
  /\ ListIt = 0
  /\ Edit = NoEdit
  /\ AST = <<>>
  /\ RootNode = NoTree

\* generateAst() is called on the graph G.
Start(G) == StartAt(G, "generateAst")

Init ==
  \E succ \in SuccessorTables(1, MaxNodes) :
    \E type \in TypeTables(MaxNodes, succ) :
      \E w \in WeightTables(MaxNodes, type) :
        /\ WellFormed(MakeGraph(MaxNodes, succ, type, w))
        /\ Start(MakeGraph(MaxNodes, succ, type, w))

\* Types of the larger input graphs: every node with two successors is a
\* Check node, at most one of the nodes with one successor is Empty.
CheckTypeTables(N, succ) ==
  {[i \in 1..N |-> IF Len(succ[i]) = 2 THEN "Check" ELSE IF i = e THEN "Empty" ELSE "Code"]
     : e \in {0} \cup {i \in 1..N : Len(succ[i]) = 1}}

\* generateAst() is called on a graph of MaxNodes + 1 nodes of unit weight.
InitLarger ==
  \E succ \in SuccessorTables(1, MaxNodes + 1) :
    \E type \in CheckTypeTables(MaxNodes + 1, succ) :
      /\ WellFormed(MakeGraph(MaxNodes + 1, succ, type, UnitWeights(MaxNodes + 1, type)))
      /\ Start(MakeGraph(MaxNodes + 1, succ, type, UnitWeights(MaxNodes + 1, type)))

\* Types of the graphs purgeDummies() is called on: any node with at most one
\* successor may be Empty.
PurgeTypeTables(N, succ) ==
  LET two == {i \in 1..N : Len(succ[i]) = 2}
  IN {[i \in 1..N |-> IF i \in checks THEN "Check" ELSE IF i \in empties THEN "Empty" ELSE "Code"]
        : checks \in SUBSET two, empties \in SUBSET ((1..N) \ two)}

\* purgeDummies() is called on a graph of MaxNodes nodes.
InitPurge ==
  \E succ \in SuccessorTables(1, MaxNodes) :
    \E type \in PurgeTypeTables(MaxNodes, succ) :
      /\ WellFormed(MakeGraph(MaxNodes, succ, type, UnitWeights(MaxNodes, type)))
      /\ StartAt(MakeGraph(MaxNodes, succ, type, UnitWeights(MaxNodes, type)), "purgeDummies")

\* The diamond A -> B, C; B -> D; C -> D; D -> E with A a Check node and the
\* weights B = 1, C = 100, D = 1; A is node 1, ..., E is node 5.
Diamond(wA, wE) ==
  MakeGraph(5, <<<<2, 3>>, <<4>>, <<4>>, <<5>>, <<>>>>,
            <<"Check", "Code", "Code", "Code", "Code">>, <<wA, 1, 100, 1, wE>>)

InitDiamond ==
  \E wA \in 0..MaxWeight : \E wE \in 0..MaxWeight : Start(Diamond(wA, wE))

\* Two conditionals that feed one join. Nested: A -> B, J; B -> C, J;
\* C -> J (three edges into J = node 4). Side by side: R -> A, B; A -> X, J;
\* B -> Y, J; X -> J; Y -> J (four edges into J = node 6). The conditionals
\* are Check nodes or blocks that end in a branch, the arm nodes X, Y, C are
\* blocks or empty nodes.
JoinNested(tA, tB, tC) ==
  MakeGraph(4, <<<<2, 4>>, <<3, 4>>, <<4>>, <<>>>>, <<tA, tB, tC, "Code">>,
            <<1, 1, IF tC = "Empty" THEN 0 ELSE 1, 1>>)

JoinSideBySide(tA, tB, tX, tY) ==
  MakeGraph(6, <<<<2, 3>>, <<4, 6>>, <<5, 6>>, <<6>>, <<6>>, <<>>>>,
            <<"Check", tA, tB, tX, tY, "Code">>,
            <<1, 1, 1, IF tX = "Empty" THEN 0 ELSE 1, IF tY = "Empty" THEN 0 ELSE 1, 1>>)

InitJoin ==
  \E tA \in {"Check", "Code"} : \E tB \in {"Check", "Code"} :
    \E tX \in {"Code", "Empty"} : \E tY \in {"Code", "Empty"} :
      \/ Start(JoinNested(tA, tB, tX))
      \/ Start(JoinSideBySide(tA, tB, tX, tY))

(***************************************************************************)
(* untangle()                                                              *)
(***************************************************************************)

\* The run has left a pointer to an erased node, or an iterator outside the
\* list: what the code does with it from here on is not defined.
Undefined(why) == pc' = "undefined" /\ Failure' = why

\* A failed revng_assert or a revng_abort ends the run.
Abort(why) ==
  /\ pc' = "aborted"
  /\ Failure' = why

\* The nodes with no successor, in BlockNodes order.
ExitNodes(G) == SelectSeq(G.BlockNodes, LAMBDA n : successor_size(G, n) = 0)

\* Graph.addArtificialNode() followed by an edge from every exit node.
RECURSIVE addEdgesTo(_, _, _)
addEdgesTo(G, sources, target) ==
  IF sources = <<>> THEN G
  ELSE addEdgesTo(addEdge(G, Head(sources), target), Tail(sources), target)

\* An edge from node to every element of targets, in order.
RECURSIVE addEdgesFrom(_, _, _)
addEdgesFrom(G, node, targets) ==
  IF targets = <<>> THEN G
  ELSE addEdgesFrom(addEdge(G, node, Head(targets)), node, Tail(targets))

addSink(G) == addEdgesTo(addArtificialNode(G), ExitNodes(G), G.NextID)

\* WeightMap[Node]: the weights are read once, before the loop; the map
\* yields 0 for a node created later.
WeightMap(G, SinkNode, n) == IF n <= SinkNode THEN G.Weight[n] ELSE 0

TotalWeight(G, SinkNode, S) ==
  SumOver([n \in S |-> WeightMap(G, SinkNode, n)], S)

\* untangle() up to the loop: sink, post-dominator map, ordered conditionals.
UntangleBegin ==
  /\ pc = "generateAst"
  /\ IF ~isDAG(Graph)
     THEN Abort("untangle: isDAG") /\ UNCHANGED <<Graph, Sink, ConditionalNodes, PostDominatorMap>>
     ELSE LET conds == SelectSeq(Graph.BlockNodes, LAMBDA n : successor_size(Graph, n) = 2)
              G1 == addSink(Graph)
              S == Graph.NextID
              pdm == [c \in Range(conds) |-> ImmediatePostDominator(G1, c, S)]
          IN /\ Graph' = G1
             /\ Sink' = S
             /\ PostDominatorMap' = pdm
             /\ IF \E c \in Range(conds) : pdm[c] = 0
                THEN Abort("untangle: PostDom != nullptr") /\ UNCHANGED ConditionalNodes
                ELSE /\ ConditionalNodes' = orderNodes(G1, Range(conds), FALSE)
                     /\ pc' = "untangle"
                     /\ UNCHANGED Failure
  /\ UNCHANGED <<Input, Split, inflateVars, astVars>>

\* The edge moves of one split of untangle: DT is the tree computed at the
\* top of the iteration, G the graph after cloneUntilExit.
RECURSIVE movePredecessors(_, _, _, _, _, _, _)
movePredecessors(G, DT, Preds, Child, Cond, PostDominator, PostDominatorClone) ==
  IF Preds = <<>> THEN G
  ELSE LET Predecessor == Head(Preds)
           G1 == IF dominates(DT, Child, Predecessor) \/ Predecessor = Cond
                 THEN moveEdgeTarget(G, Predecessor, PostDominator, PostDominatorClone)
                 ELSE G
       IN movePredecessors(G1, DT, Tail(Preds), Child, Cond, PostDominator, PostDominatorClone)

\* The second half of an "Actually splitting node" block: c is what
\* cloneUntilExit returned, and the edges of the arm that starts at Child
\* move to the clone.
splitArmMove(c, DT, Child, Cond, PostDominator) ==
  LET G1 == movePredecessors(c.Graph, DT, SetToSeq(c.Graph.Predecessors[PostDominator]),
                             Child, Cond, PostDominator, c.Clone)
  IN [Graph |-> G1, Clone |-> c.Clone,
      Failed |-> c.Aborted \/ predecessor_size(G1, c.Clone) = 0]

\* One of the two "Actually splitting node" blocks: clone the continuation
\* and move the edges of the arm that starts at Child.
splitArm(G, DT, Child, Cond, PostDominator, SinkNode) ==
  splitArmMove(cloneUntilExit(G, PostDominator, SinkNode), DT, Child, Cond, PostDominator)

\* The weights with ThenWeight and ElseWeight summed over all the nodes of
\* the two arms instead of over the nodes Conditional does not dominate.
untangleWeightsWholeArms(G, SinkNode, Cond, PostDominator) ==
  LET ThenChild == G.Successors[Cond][1]
      ElseChild == G.Successors[Cond][2]
      ThenNodes == findReachableNodes(G, ThenChild, PostDominator) \ {PostDominator}
      ElseNodes == findReachableNodes(G, ElseChild, PostDominator) \ {PostDominator}
      NotDominatedThenNodes == {n \in ThenNodes : ~dominates(G, Cond, n)}
      NotDominatedElseNodes == {n \in ElseNodes : ~dominates(G, Cond, n)}
      ThenWeight == TotalWeight(G, SinkNode, ThenNodes)
      ElseWeight == TotalWeight(G, SinkNode, ElseNodes)
      PostDominatorWeight ==
        TotalWeight(G, SinkNode, findReachableNodes(G, PostDominator, SinkNode))
  IN [ Skip |-> (NotDominatedThenNodes # {} /\ NotDominatedElseNodes # {})
                \/ ThenNodes \cap ElseNodes # {},
       ThenWeight |-> ThenWeight,
       ElseWeight |-> ElseWeight,
       OneWeight |-> (ThenWeight + ElseWeight),
       TwoWeight |-> (ThenWeight + PostDominatorWeight),
       ThreeWeight |-> (ElseWeight + PostDominatorWeight) ]

\* What one iteration of the loop of untangle computes for Conditional.
untangleWeights(G, SinkNode, Cond, PostDominator) ==
  LET ThenChild == G.Successors[Cond][1]
      ElseChild == G.Successors[Cond][2]
      ThenNodes == findReachableNodes(G, ThenChild, PostDominator) \ {PostDominator}
      ElseNodes == findReachableNodes(G, ElseChild, PostDominator) \ {PostDominator}
      NotDominatedThenNodes == {n \in ThenNodes : ~dominates(G, Cond, n)}
      NotDominatedElseNodes == {n \in ElseNodes : ~dominates(G, Cond, n)}
      ThenWeight == TotalWeight(G, SinkNode, NotDominatedThenNodes)
      ElseWeight == TotalWeight(G, SinkNode, NotDominatedElseNodes)
      PostDominatorWeight ==
        TotalWeight(G, SinkNode, findReachableNodes(G, PostDominator, SinkNode))
  IN [ Skip |-> (NotDominatedThenNodes # {} /\ NotDominatedElseNodes # {})
                \/ ThenNodes \cap ElseNodes # {},
       ThenWeight |-> ThenWeight,
       ElseWeight |-> ElseWeight,
       OneWeight |-> (ThenWeight + ElseWeight),
       TwoWeight |-> (ThenWeight + PostDominatorWeight),
       ThreeWeight |-> (ElseWeight + PostDominatorWeight) ]

\* A faulty first split that moves the edges of the `then` arm.
untangleElseMovesThen(G, SinkNode, Cond, PostDominator, W) ==
  IF /\ ~W.Skip
     /\ isGreater(W.TwoWeight, W.ThreeWeight)
     /\ isGreater(W.OneWeight, W.ThreeWeight)
     /\ PostDominator # SinkNode
  THEN splitArm(G, G, G.Successors[Cond][1], Cond, PostDominator, SinkNode)
  ELSE [Graph |-> G, Clone |-> 0, Failed |-> FALSE]

\* The first split of an iteration: the `else` arm, when weight 2 and
\* weight 1 are greater than weight 3.
untangleElse(G, SinkNode, Cond, PostDominator, W) ==
  IF /\ ~W.Skip
     /\ isGreater(W.TwoWeight, W.ThreeWeight)
     /\ isGreater(W.OneWeight, W.ThreeWeight)
     /\ PostDominator # SinkNode
  THEN splitArm(G, G, G.Successors[Cond][2], Cond, PostDominator, SinkNode)
  ELSE [Graph |-> G, Clone |-> 0, Failed |-> FALSE]

\* The second split of an iteration: the `then` arm, when weight 3 and
\* weight 1 are greater than weight 2. DT is the dominator tree computed at
\* the start of the iteration, r1 what the first split left.
untangleThen(DT, r1, SinkNode, Cond, PostDominator, W) ==
  IF /\ ~W.Skip
     /\ isGreater(W.ThreeWeight, W.TwoWeight)
     /\ isGreater(W.OneWeight, W.TwoWeight)
     /\ PostDominator # SinkNode
     /\ ~r1.Failed
  THEN splitArm(r1.Graph, DT, DT.Successors[Cond][1], Cond, PostDominator, SinkNode)
  ELSE r1

\* The state an iteration of the loop of untangle leaves: W are the weights
\* it computed and r2 the graph after the splits.
UntangleSplit(Cond, PostDominator, W, r2) ==
  /\ Graph.NextID <= MaxID
  /\ Graph' = r2.Graph
  /\ Split' = [ Conditional |-> Cond, PostDominator |-> PostDominator,
                ThenWeight |-> IF W.Skip THEN 0 ELSE W.ThenWeight,
                ElseWeight |-> IF W.Skip THEN 0 ELSE W.ElseWeight,
                OneWeight |-> IF W.Skip THEN 0 ELSE W.OneWeight,
                TwoWeight |-> IF W.Skip THEN 0 ELSE W.TwoWeight,
                ThreeWeight |-> IF W.Skip THEN 0 ELSE W.ThreeWeight,
                Clones |-> r2.Graph.NextID - Graph.NextID ]
  /\ IF r2.Failed
     THEN Abort("untangle: PostDominatorClone->predecessor_size() > 0")
     ELSE IF Dangling(r2.Graph)
     THEN Undefined("untangle: edge to a removed node")
     ELSE UNCHANGED <<pc, Failure>>

\* The body of the loop of untangle for Cond, with the weights W.
UntangleConditional(Cond, PostDominator, W) ==
  UntangleSplit(Cond, PostDominator, W,
                untangleThen(Graph, untangleElse(Graph, Sink, Cond, PostDominator, W),
                             Sink, Cond, PostDominator, W))

\* One iteration of the loop of untangle.
UntangleStep ==
  /\ pc = "untangle"
  /\ ConditionalNodes # <<>>
  /\ LET Cond == ConditionalNodes[Len(ConditionalNodes)]
         PostDominator == PostDominatorMap[Cond]
     IN /\ ConditionalNodes' = SubSeq(ConditionalNodes, 1, Len(ConditionalNodes) - 1)
        /\ IF successor_size(Graph, Cond) # 2
           THEN Abort("untangle: successor_size() == 2") /\ UNCHANGED <<Graph, Split>>
           ELSE UntangleConditional(Cond, PostDominator,
                                    untangleWeights(Graph, Sink, Cond, PostDominator))
  /\ UNCHANGED <<Input, Sink, PostDominatorMap, inflateVars, astVars>>

\* The end of untangle: the sink is purged.
UntangleEnd ==
  /\ pc = "untangle"
  /\ ConditionalNodes = <<>>
  /\ LET r == purgeVirtualSink(Graph, Sink)
     IN /\ Graph' = r.Graph
        /\ IF r.Freed > 0
           THEN Undefined("purgeVirtualSink: removeNode of a removed node")
           ELSE IF Dangling(r.Graph)
           THEN Undefined("purgeVirtualSink: edge to a removed node")
           ELSE pc' = "inflate" /\ UNCHANGED Failure
  /\ Sink' = 0
  /\ Split' = NoSplit
  /\ UNCHANGED <<Input, ConditionalNodes, PostDominatorMap, inflateVars, astVars>>

(***************************************************************************)
(* inflate()                                                               *)
(***************************************************************************)

\* ReachableExits[n]: the exit nodes from which the inverse depth-first visit
\* reaches n.
ReachableExits(G, n) == {e \in Range(ExitNodes(G)) : e \in Reach(G, n, {})}

\* A selection that blacklists a node only if it dominates the exits of
\* both arms.
isConditionalUnlessBothDominated(G, DT, It) ==
  LET ThenExits == ReachableExits(G, G.Successors[It][1])
      ElseExits == ReachableExits(G, G.Successors[It][2])
      ThenIsDominated == \A Exit \in ThenExits : dominates(DT, It, Exit)
      ElseIsDominated == \A Exit \in ElseExits : dominates(DT, It, Exit)
  IN (ThenExits \cap ElseExits) # {} \/ ~(ThenIsDominated /\ ElseIsDominated)

\* The test that puts a two-successor node in ConditionalNodes: G is the
\* graph before the sink was added, DT the graph the dominator tree is of.
isConditional(G, DT, It) ==
  LET ThenExits == ReachableExits(G, G.Successors[It][1])
      ElseExits == ReachableExits(G, G.Successors[It][2])
      ThenIsDominated == \A Exit \in ThenExits : dominates(DT, It, Exit)
      ElseIsDominated == \A Exit \in ElseExits : dominates(DT, It, Exit)
  IN (ThenExits \cap ElseExits) # {} \/ ~(ThenIsDominated \/ ElseIsDominated)

\* inflate() after untangle() and up to the loop over the conditionals.
InflateBegin ==
  /\ pc = "inflate"
  /\ Graph.NextID <= MaxID
  /\ LET G1 == addSink(Graph)
         S == Graph.NextID
         conds == {n \in Nodes(Graph) : successor_size(Graph, n) = 2 /\ isConditional(Graph, G1, n)}
         rpot == ReversePostOrderTraversal(G1)
         pdm == [c \in conds |-> ImmediatePostDominator(G1, c, S)]
     IN IF ~isDAG(Graph)
        THEN Abort("inflate: isDAG") /\ UNCHANGED <<Graph, untangleVars, inflateVars>>
        ELSE /\ Graph' = G1
             /\ Sink' = S
             /\ ConditionalNodesComplete' = conds
             /\ RevPostOrderList' = rpot
             /\ NodesEquivalenceClass' = [n \in Range(rpot) |-> {n}]
             /\ CloneToOriginalMap' = [n \in Range(rpot) |-> n]
             /\ PostDominatorMap' = pdm
             /\ UNCHANGED <<Split, Conditional, WorkList, Visited, ListIt, Edit>>
             /\ IF ~(conds \subseteq Range(rpot))
                THEN Abort("orderNodes: L.size() == Result.size()") /\ UNCHANGED ConditionalNodes
                ELSE IF \E c \in conds : pdm[c] = 0
                THEN Abort("inflate: PostDom != nullptr") /\ UNCHANGED ConditionalNodes
                ELSE /\ ConditionalNodes' = orderNodes(G1, conds, FALSE)
                     /\ pc' = "comb"
                     /\ UNCHANGED Failure
  /\ UNCHANGED <<Input, astVars>>

\* The head of an iteration of the loop over the conditionals.
InflatePick ==
  /\ pc = "comb"
  /\ ConditionalNodes # <<>>
  /\ LET C == ConditionalNodes[Len(ConditionalNodes)]
         succs == Range(successors(Graph, C))
     IN /\ ConditionalNodes' = SubSeq(ConditionalNodes, 1, Len(ConditionalNodes) - 1)
        /\ Conditional' = C
        /\ WorkList' = succs
        /\ Visited' = {C}
        /\ Edit' = NoEdit
        /\ IF C \in Range(RevPostOrderList)
           THEN /\ ListIt' = C
                /\ pc' = IF succs = {} THEN "comb" ELSE "worklist"
                /\ UNCHANGED Failure
           ELSE /\ ListIt' = 0
                /\ Abort("inflate: ListIt != RevPostOrderList.end()")
  /\ UNCHANGED <<Graph, Input, Sink, PostDominatorMap, Split, ConditionalNodesComplete,
                 NodesEquivalenceClass, CloneToOriginalMap, RevPostOrderList, astVars>>

predecessorsVisited(G, Node, Vis) == predecessors(G, Node) \subseteq Vis

nodeVisited(Node, Vis) == Node \in Vis

\* A faulty step that leaves the iterator where it is.
ListNextStuck(L, it) == it

\* A faulty ++ListIt that moves two positions forward.
ListNextTwice(L, it) ==
  LET i == IndexOf(L, it) IN IF i = 0 \/ i + 2 > Len(L) THEN 0 ELSE L[i + 2]

\* ++ListIt and --ListIt on the std::list L; 0 is end(), -1 is a position
\* before begin().
ListNext(L, it) ==
  LET i == IndexOf(L, it) IN IF i = 0 \/ i = Len(L) THEN 0 ELSE L[i + 1]

ListPrev(L, it) ==
  IF it = 0 THEN (IF L = <<>> THEN -1 ELSE L[Len(L)])
  ELSE LET i == IndexOf(L, it) IN IF i <= 1 THEN -1 ELSE L[i - 1]

\* RevPostOrderList.insert(ListIt, New)
ListInsert(L, it, New) ==
  IF it = 0 THEN Append(L, New) ELSE InsertAt(L, IndexOf(L, it), New)

\* Faulty loops that move the edges of the other group of predecessors: of
\* the visited ones for a clone and of the unvisited ones for a dummy.
RECURSIVE moveEdgesOfOthers(_, _, _, _, _, _)
moveEdgesOfOthers(G, Preds, Candidate, Target, Vis, wantVisited) ==
  IF Preds = <<>> THEN G
  ELSE LET Predecessor == Head(Preds)
           G1 == IF nodeVisited(Predecessor, Vis) # wantVisited
                 THEN moveEdgeTarget(G, Predecessor, Candidate, Target)
                 ELSE G
       IN moveEdgesOfOthers(G1, Tail(Preds), Candidate, Target, Vis, wantVisited)

\* The loops that move the edges of the predecessors of Candidate to Target:
\* those of the visited predecessors (dummy) or of the others (clone).
RECURSIVE moveEdges(_, _, _, _, _, _)
moveEdges(G, Preds, Candidate, Target, Vis, wantVisited) ==
  IF Preds = <<>> THEN G
  ELSE LET Predecessor == Head(Preds)
           G1 == IF nodeVisited(Predecessor, Vis) = wantVisited
                 THEN moveEdgeTarget(G, Predecessor, Candidate, Target)
                 ELSE G
       IN moveEdges(G1, Tail(Preds), Candidate, Target, Vis, wantVisited)

\* A faulty dummy insertion: the dummy takes the edges of every predecessor
\* of Candidate, visited or not.
insertDummyAllPredecessors(G, Candidate, Vis) ==
  LET Dummy == G.NextID
      G1 == addArtificialNode(G)
      Preds == SetToSeq(G1.Predecessors[Candidate])
      G2 == moveEdges(G1, Preds, Candidate, Dummy, Vis, TRUE)
      G3 == moveEdges(G2, Preds, Candidate, Dummy, Vis, FALSE)
  IN addEdge(G3, Dummy, Candidate)

\* "Insert a dummy node": the graph after the edge moves; the dummy is
\* G.NextID.
insertDummy(G, Candidate, Vis) ==
  LET Dummy == G.NextID
      G1 == addArtificialNode(G)
      G2 == moveEdges(G1, SetToSeq(G1.Predecessors[Candidate]), Candidate, Dummy, Vis, TRUE)
  IN addEdge(G2, Dummy, Candidate)

\* A faulty duplication: the clone is wired to the predecessors of Candidate
\* instead of its successors.
duplicateNodeToPredecessors(G, Candidate, Vis) ==
  LET Duplicated == G.NextID
      G1 == cloneNode(G, Candidate)
      G2 == addEdgesFrom(G1, Duplicated, SetToSeq(G1.Predecessors[Candidate]))
  IN moveEdges(G2, SetToSeq(G1.Predecessors[Candidate]), Candidate, Duplicated, Vis, FALSE)

\* "Duplicate node": the graph after the edge moves; the clone is G.NextID.
duplicateNode(G, Candidate, Vis) ==
  LET Duplicated == G.NextID
      G1 == cloneNode(G, Candidate)
      G2 == IF isCheck(G1, Candidate)
            THEN setFalse(setTrue(G1, Duplicated, getTrue(G1, Candidate)),
                          Duplicated, getFalse(G1, Candidate))
            ELSE addEdgesFrom(G1, Duplicated, G1.Successors[Candidate])
  IN moveEdges(G2, SetToSeq(G2.Predecessors[Candidate]), Candidate, Duplicated, Vis, FALSE)

\* A faulty loop over RemovedNodes that leaves the list and ListIt alone.
dropRemovedNothing(L, it, RemovedNodes) == [List |-> L, ListIt |-> it]

\* The loop over RemovedNodes after purgeDummies: ListIt and the list.
RECURSIVE dropRemoved(_, _, _)
dropRemoved(L, it, RemovedNodes) ==
  IF RemovedNodes = <<>> THEN [List |-> L, ListIt |-> it]
  ELSE LET ToRemove == Head(RemovedNodes)
           it1 == IF it = ToRemove THEN ListPrev(L, it) ELSE it
       IN dropRemoved(Without(L, ToRemove), it1, Tail(RemovedNodes))

\* One iteration of the worklist loop of inflate.
InflateIter ==
  /\ pc = "worklist"
  /\ WorkList # {}
  /\ Graph.NextID <= MaxID
  /\ LET PostDom == PostDominatorMap[Conditional]
         PostDomSet == IF PostDom \in DOMAIN NodesEquivalenceClass
                       THEN NodesEquivalenceClass[PostDom] ELSE {}
         NextInList == ListNext(RevPostOrderList, ListIt)
         Candidate == NextInList
         allVisited == predecessorsVisited(Graph, Candidate, Visited)
         IsPostDom == Candidate \in PostDomSet
         succs == Range(successors(Graph, Candidate))
     IN IF NextInList <= 0
        THEN \* ++ListIt reached end(): *ListIt is not an element of the list
             /\ Undefined("inflate: *ListIt at end()")
             /\ ListIt' = NextInList
             /\ UNCHANGED <<Graph, ConditionalNodes, PostDominatorMap, ConditionalNodesComplete,
                            NodesEquivalenceClass, CloneToOriginalMap, RevPostOrderList,
                            WorkList, Visited, Edit>>
        ELSE IF NextInList \notin WorkList
        THEN \* "Go to the next node in reverse postorder"
             /\ ListIt' = NextInList
             /\ Edit' = [NoEdit EXCEPT !.Kind = "skip", !.Candidate = NextInList]
             /\ UNCHANGED <<Graph, pc, Failure, ConditionalNodes, PostDominatorMap,
                            ConditionalNodesComplete, NodesEquivalenceClass, CloneToOriginalMap,
                            RevPostOrderList, WorkList, Visited>>
        ELSE IF IsPostDom /\ allVisited
        THEN \* "We can analyze the next conditional node": break
             /\ ListIt' = Candidate
             /\ pc' = "comb"
             /\ Edit' = [NoEdit EXCEPT !.Kind = "break", !.Candidate = Candidate, !.IsPostDom = TRUE]
             /\ UNCHANGED <<Graph, Failure, ConditionalNodes, PostDominatorMap,
                            ConditionalNodesComplete, NodesEquivalenceClass, CloneToOriginalMap,
                            RevPostOrderList, WorkList, Visited>>
        ELSE IF allVisited
        THEN \* visited, successors enqueued, continue
             /\ ListIt' = Candidate
             /\ Visited' = Visited \cup {Candidate}
             /\ WorkList' = (WorkList \ {Candidate}) \cup succs
             /\ pc' = IF (WorkList \ {Candidate}) \cup succs = {} THEN "comb" ELSE "worklist"
             /\ Edit' = [NoEdit EXCEPT !.Kind = "visit", !.Candidate = Candidate]
             /\ UNCHANGED <<Graph, Failure, ConditionalNodes, PostDominatorMap,
                            ConditionalNodesComplete, NodesEquivalenceClass, CloneToOriginalMap,
                            RevPostOrderList>>
        ELSE LET Visited1 == Visited \cup {Candidate}
                 WorkList1 == IF IsPostDom THEN WorkList \ {Candidate}
                              ELSE (WorkList \ {Candidate}) \cup succs
                 New == Graph.NextID
                 asDummy == predecessor_size(Graph, Candidate) > 2 /\ IsPostDom
                 List1 == ListInsert(RevPostOrderList, Candidate, New)
                 Visited2 == IF asDummy THEN Visited1 \ {Candidate} ELSE Visited1
                 WorkList2 == IF asDummy THEN WorkList1 \cup {Candidate, New} ELSE WorkList1
                 ListIt1 == IF asDummy THEN ListPrev(List1, ListPrev(List1, Candidate))
                            ELSE Candidate
                 G1 == IF asDummy THEN insertDummy(Graph, Candidate, Visited2)
                       ELSE duplicateNode(Graph, Candidate, Visited1)
                 known == Candidate \in DOMAIN CloneToOriginalMap
                 OriginalNode == CloneToOriginalMap[Candidate]
                 wasConditional == Candidate \in ConditionalNodesComplete
                 purged == purgeDummies(G1)
                 dropped == dropRemoved(List1, ListIt1, purged.RemovedNodes)
                 gone == Range(purged.RemovedNodes)
             IN IF ~asDummy /\ (~known \/ (isCheck(Graph, Candidate) /\ successor_size(Graph, Candidate) # 2))
                THEN /\ Abort(IF known THEN "inflate: getTrue() != nullptr and getFalse() != nullptr"
                              ELSE "inflate: CloneToOriginalMap.count(Candidate) != 0")
                     /\ UNCHANGED <<Graph, ConditionalNodes, PostDominatorMap,
                                    ConditionalNodesComplete, NodesEquivalenceClass,
                                    CloneToOriginalMap, RevPostOrderList, WorkList, Visited,
                                    ListIt, Edit>>
                ELSE /\ Graph' = purged.Graph
                     /\ RevPostOrderList' = dropped.List
                     /\ ListIt' = dropped.ListIt
                     /\ Visited' = Visited2 \ gone
                     /\ WorkList' = WorkList2 \ gone
                     /\ NodesEquivalenceClass' =
                          IF asDummy THEN (New :> {New}) @@ NodesEquivalenceClass
                          ELSE [NodesEquivalenceClass EXCEPT ![OriginalNode] = @ \cup {New}]
                     /\ CloneToOriginalMap' =
                          (New :> (IF asDummy THEN New ELSE OriginalNode)) @@ CloneToOriginalMap
                     /\ PostDominatorMap' =
                          IF asDummy
                          THEN IF ~isEmpty(Graph, Candidate) \/ Candidate = Sink
                               THEN [PostDominatorMap EXCEPT ![Conditional] = New]
                               ELSE PostDominatorMap
                          ELSE IF wasConditional
                               THEN (New :> PostDominatorMap[Candidate]) @@ PostDominatorMap
                               ELSE PostDominatorMap
                     /\ ConditionalNodes' =
                          IF ~asDummy /\ wasConditional THEN Append(ConditionalNodes, New)
                          ELSE ConditionalNodes
                     /\ ConditionalNodesComplete' =
                          IF ~asDummy /\ wasConditional THEN ConditionalNodesComplete \cup {New}
                          ELSE ConditionalNodesComplete
                     /\ Edit' = [Kind |-> IF asDummy THEN "dummy" ELSE "clone",
                                 Candidate |-> Candidate, New |-> New,
                                 IsPostDom |-> IsPostDom, Removed |-> purged.RemovedNodes]
                     /\ IF Dangling(purged.Graph)
                        THEN Undefined("purgeDummies: edge to a removed node")
                        ELSE IF dropped.ListIt = -1
                        THEN Undefined("inflate: --ListIt at begin()")
                        ELSE /\ pc' = IF WorkList2 \ gone = {} THEN "comb" ELSE "worklist"
                             /\ UNCHANGED Failure
  /\ UNCHANGED <<Input, Sink, Split, Conditional, astVars>>

\* inflate() after the loop: the last purgeDummies and purgeVirtualSink.
InflateEnd ==
  /\ pc = "comb"
  /\ ConditionalNodes = <<>>
  /\ LET r == purgeVirtualSink(purgeDummies(Graph).Graph, Sink)
     IN /\ Graph' = r.Graph
        /\ IF r.Freed > 0
           THEN Undefined("purgeVirtualSink: removeNode of a removed node")
           ELSE IF Dangling(r.Graph)
           THEN Undefined("purgeDummies: edge to a removed node")
           ELSE pc' = "ast" /\ UNCHANGED Failure
  /\ UNCHANGED <<Input, untangleVars, inflateVars, astVars>>

(***************************************************************************)
(* generateAst()                                                           *)
(***************************************************************************)

\* The order in which the depth-first visit of the dominator tree
\* construction numbers the nodes: children in successor order.
RECURSIVE PreOrder(_, _, _, _)
PreOrder(G, stack, visited, out) ==
  IF stack = <<>> THEN out
  ELSE LET top == stack[Len(stack)]
           n == top[1]
           i == top[2]
           rest == SubSeq(stack, 1, Len(stack) - 1)
       IN IF i > successor_size(G, n)
          THEN PreOrder(G, rest, visited, out)
          ELSE LET c == successors(G, n)[i] IN
               IF c \in visited
               THEN PreOrder(G, Append(rest, <<n, i + 1>>), visited, out)
               ELSE PreOrder(G, Append(Append(rest, <<n, i + 1>>), <<c, 1>>),
                             visited \cup {c}, Append(out, c))

DFSNumbering(G) == PreOrder(G, <<<<EntryNode, 1>>>>, {EntryNode}, <<EntryNode>>)

\* ASTDT[Node]->getChildren() for every node reachable from the entry: the
\* nodes it immediately dominates, in the order of their DFS numbers.
DomTreeChildren(G) ==
  LET order == DFSNumbering(G)
      idom == [c \in Range(order) |-> ImmediateDominator(G, c)]
  IN [n \in Range(order) |-> SelectSeq(order, LAMBDA c : idom[c] = n)]

NullAST == [Kind |-> "Null", Then |-> 0, Else |-> 0, Next |-> 0, Failed |-> ""]

\* A faulty dispatch: a Check node with one child matches the child with
\* its true successor only.
ASTObjectTrueOnly(G, Node, BBChildren) ==
  LET size == Len(BBChildren)
      two == successor_size(G, Node) = 2
      mk(kind, t, e, n) == [Kind |-> kind, Then |-> t, Else |-> e, Next |-> n, Failed |-> ""]
      failed(why) == [NullAST EXCEPT !.Failed = why]
  IN IF size >= 4 THEN failed("generateAst: Children.size() < 4")
     ELSE IF size = 3
     THEN IF isCheck(G, Node)
          THEN IF two /\ BBChildren[1] = getTrue(G, Node) /\ BBChildren[3] = getFalse(G, Node)
               THEN mk("IfCheck", BBChildren[1], BBChildren[3], BBChildren[2])
               ELSE IF two /\ BBChildren[3] = getTrue(G, Node) /\ BBChildren[1] = getFalse(G, Node)
               THEN mk("IfCheck", BBChildren[3], BBChildren[1], BBChildren[2])
               ELSE failed("generateAst: Then and else branches cannot be matched")
          ELSE mk("If", BBChildren[1], BBChildren[3], BBChildren[2])
     ELSE IF size = 2
     THEN IF isCheck(G, Node)
          THEN IF two /\ BBChildren[1] = getTrue(G, Node) /\ BBChildren[2] = getFalse(G, Node)
               THEN mk("IfCheck", BBChildren[1], BBChildren[2], 0)
               ELSE IF two /\ BBChildren[2] = getTrue(G, Node) /\ BBChildren[1] = getFalse(G, Node)
               THEN mk("IfCheck", BBChildren[2], BBChildren[1], 0)
               ELSE failed("generateAst: Then and else branches cannot be matched")
          ELSE mk("If", BBChildren[1], BBChildren[2], 0)
     ELSE IF size = 1
     THEN IF isCheck(G, Node)
          THEN IF ~two THEN failed("generateAst: getTrue() of a Check node without two successors")
               ELSE IF BBChildren[1] = getTrue(G, Node) THEN mk("IfCheck", BBChildren[1], 0, 0)
               ELSE NullAST
          ELSE mk("Code", 0, 0, BBChildren[1])
     ELSE IF isEmpty(G, Node) \/ G.NodeType[Node] = "Code" THEN mk("Code", 0, 0, 0)
          ELSE failed("generateAst: revng_abort()")

\* A faulty dispatch: a Check node with three children takes the first
\* child as then and the last as else, whatever its true successor is.
ASTObjectByPosition(G, Node, BBChildren) ==
  LET size == Len(BBChildren)
      two == successor_size(G, Node) = 2
      mk(kind, t, e, n) == [Kind |-> kind, Then |-> t, Else |-> e, Next |-> n, Failed |-> ""]
      failed(why) == [NullAST EXCEPT !.Failed = why]
  IN IF size >= 4 THEN failed("generateAst: Children.size() < 4")
     ELSE IF size = 3
     THEN IF isCheck(G, Node)
          THEN mk("IfCheck", BBChildren[1], BBChildren[3], BBChildren[2])
          ELSE mk("If", BBChildren[1], BBChildren[3], BBChildren[2])
     ELSE IF size = 2
     THEN IF isCheck(G, Node)
          THEN IF two /\ BBChildren[1] = getTrue(G, Node) /\ BBChildren[2] = getFalse(G, Node)
               THEN mk("IfCheck", BBChildren[1], BBChildren[2], 0)
               ELSE IF two /\ BBChildren[2] = getTrue(G, Node) /\ BBChildren[1] = getFalse(G, Node)
               THEN mk("IfCheck", BBChildren[2], BBChildren[1], 0)
               ELSE failed("generateAst: Then and else branches cannot be matched")
          ELSE mk("If", BBChildren[1], BBChildren[2], 0)
     ELSE IF size = 1
     THEN IF isCheck(G, Node)
          THEN IF ~two THEN failed("generateAst: getTrue() of a Check node without two successors")
               ELSE IF BBChildren[1] = getTrue(G, Node) THEN mk("IfCheck", BBChildren[1], 0, 0)
               ELSE IF BBChildren[1] = getFalse(G, Node) THEN mk("IfCheck", 0, BBChildren[1], 0)
               ELSE NullAST
          ELSE mk("Code", 0, 0, BBChildren[1])
     ELSE IF isEmpty(G, Node) \/ G.NodeType[Node] = "Code" THEN mk("Code", 0, 0, 0)
          ELSE failed("generateAst: revng_abort()")

\* The body of the loop of generateAst for a node that is not Collapsed:
\* the AST object registered for Node, and the assertion it fails if any.
ASTObject(G, Node, BBChildren) ==
  LET size == Len(BBChildren)
      two == successor_size(G, Node) = 2
      mk(kind, t, e, n) == [Kind |-> kind, Then |-> t, Else |-> e, Next |-> n, Failed |-> ""]
      failed(why) == [NullAST EXCEPT !.Failed = why]
  IN IF size >= 4 THEN failed("generateAst: Children.size() < 4")
     ELSE IF size = 3
     THEN IF isCheck(G, Node)
          THEN IF two /\ BBChildren[1] = getTrue(G, Node) /\ BBChildren[3] = getFalse(G, Node)
               THEN mk("IfCheck", BBChildren[1], BBChildren[3], BBChildren[2])
               ELSE IF two /\ BBChildren[3] = getTrue(G, Node) /\ BBChildren[1] = getFalse(G, Node)
               THEN mk("IfCheck", BBChildren[3], BBChildren[1], BBChildren[2])
               ELSE failed("generateAst: Then and else branches cannot be matched")
          ELSE mk("If", BBChildren[1], BBChildren[3], BBChildren[2])
     ELSE IF size = 2
     THEN IF isCheck(G, Node)
          THEN IF two /\ BBChildren[1] = getTrue(G, Node) /\ BBChildren[2] = getFalse(G, Node)
               THEN mk("IfCheck", BBChildren[1], BBChildren[2], 0)
               ELSE IF two /\ BBChildren[2] = getTrue(G, Node) /\ BBChildren[1] = getFalse(G, Node)
               THEN mk("IfCheck", BBChildren[2], BBChildren[1], 0)
               ELSE failed("generateAst: Then and else branches cannot be matched")
          ELSE mk("If", BBChildren[1], BBChildren[2], 0)
     ELSE IF size = 1
     THEN IF isCheck(G, Node)
          THEN IF ~two THEN failed("generateAst: getTrue() of a Check node without two successors")
               ELSE IF BBChildren[1] = getTrue(G, Node) THEN mk("IfCheck", BBChildren[1], 0, 0)
               ELSE IF BBChildren[1] = getFalse(G, Node) THEN mk("IfCheck", 0, BBChildren[1], 0)
               ELSE NullAST
          ELSE mk("Code", 0, 0, BBChildren[1])
     ELSE IF isEmpty(G, Node) \/ G.NodeType[Node] = "Code" THEN mk("Code", 0, 0, 0)
          ELSE failed("generateAst: revng_abort()")

\* The AST object of the graph node n with the objects its children point
\* to: ASTNode::isEmpty() is the emptiness of the block of the object.
RECURSIVE ASTTree(_, _, _)
ASTTree(G, objs, n) ==
  IF n = 0 THEN NoTree
  ELSE IF objs[n].Kind = "Null" THEN NoTree
  ELSE [Kind |-> objs[n].Kind, Node |-> n, IsEmpty |-> isEmpty(G, n),
        Then |-> ASTTree(G, objs, objs[n].Then),
        Else |-> ASTTree(G, objs, objs[n].Else),
        Next |-> ASTTree(G, objs, objs[n].Next),
        List |-> <<>>]

\* llvm::dyn_cast<IfNode>: an IfCheckNode is an IfNode.
isIfNode(t) == t.Kind \in {"If", "IfCheck"}

\* Tree.addSequenceNode() filled with the nodes of List.
SequenceNode(List) ==
  [Kind |-> "Sequence", Node |-> 0, IsEmpty |-> FALSE,
   Then |-> NoTree, Else |-> NoTree, Next |-> NoTree, List |-> List]

\* createSequence(Tree, RootNode)
RECURSIVE createSequence(_)
createSequence(Root) ==
  LET wrap(c) == IF c.Kind = "Null" THEN c ELSE createSequence(c)
  IN SequenceNode(<<IF isIfNode(Root)
                    THEN [Root EXCEPT !.Then = wrap(@), !.Else = wrap(@)]
                    ELSE Root>>)

\* simplifyDummies(RootNode)
RECURSIVE simplifyDummies(_)
simplifyDummies(Root) ==
  LET into(c) == IF c.Kind = "Null" THEN c ELSE simplifyDummies(c)
      kept == SelectSeq(Root.List, LAMBDA c : ~c.IsEmpty)
  IN IF Root.Kind = "Sequence"
     THEN [Root EXCEPT !.List = [i \in 1..Len(kept) |-> simplifyDummies(kept[i])]]
     ELSE IF isIfNode(Root)
     THEN [Root EXCEPT !.Then = into(@), !.Else = into(@)]
     ELSE Root

\* simplifyAtomicSequence(RootNode): simplifiedInPlace is the node RootNode
\* points to when the call has returned, simplifyAtomicSequence the pointer
\* the call returns. In a Sequence of several nodes the pointer returned
\* for an element is assigned to the loop variable only.
RECURSIVE simplifyAtomicSequence(_)
RECURSIVE simplifiedInPlace(_)
\* A faulty pass: the nodes of a Sequence of several nodes are not visited.
simplifiedBranchesOnly(Root) ==
  LET into(c) == IF c.Kind = "Null" THEN c ELSE simplifyAtomicSequence(c)
  IN IF isIfNode(Root)
     THEN [Root EXCEPT !.Then = into(@), !.Else = into(@)]
     ELSE Root

simplifiedInPlace(Root) ==
  LET into(c) == IF c.Kind = "Null" THEN c ELSE simplifyAtomicSequence(c)
  IN IF Root.Kind = "Sequence"
     THEN [Root EXCEPT !.List = [i \in 1..Len(@) |-> simplifiedInPlace(@[i])]]
     ELSE IF isIfNode(Root)
     THEN [Root EXCEPT !.Then = into(@), !.Else = into(@)]
     ELSE Root

simplifyAtomicSequence(Root) ==
  IF Root.Kind = "Sequence"
  THEN IF Len(Root.List) = 0 THEN NoTree
       ELSE IF Len(Root.List) = 1 THEN simplifyAtomicSequence(Root.List[1])
       ELSE simplifiedInPlace(Root)
  ELSE simplifiedInPlace(Root)

\* generateAst() after inflate(): the dominator tree, one AST object per
\* node, visited in the order of getDFSNumOut(), and the passes over the
\* tree under the object of the root of the dominator tree.
GenerateAst ==
  /\ pc = "ast"
  /\ LET kids == DomTreeChildren(Graph)
         order == PostOrder([Successors |-> kids], <<<<EntryNode, 1>>>>, {EntryNode}, <<>>)
         objs == [n \in Range(order) |-> ASTObject(Graph, n, kids[n])]
         bad == SelectSeq(order, LAMBDA n : objs[n].Failed # "")
     IN IF ~(Nodes(Graph) \subseteq Reach(Graph, EntryNode, {}))
        THEN Abort("generateAst: ASTDT[Node] is null") /\ UNCHANGED astVars
        ELSE IF bad # <<>>
        THEN /\ Abort(objs[bad[1]].Failed)
             /\ AST' = Restrict(objs, {n \in Range(order) : IndexOf(order, n) < IndexOf(order, bad[1])})
             /\ UNCHANGED RootNode
        ELSE IF objs[EntryNode].Kind = "Null"
        THEN /\ Undefined("createSequence: dyn_cast of a null ASTNode")
             /\ AST' = objs
             /\ UNCHANGED RootNode
        ELSE /\ AST' = objs
             /\ RootNode' = simplifyAtomicSequence(simplifyDummies(
                              createSequence(ASTTree(Graph, objs, EntryNode))))
             /\ pc' = "built"
             /\ UNCHANGED Failure
  /\ UNCHANGED <<Graph, Input, untangleVars, inflateVars>>

\* A faulty removeNotReachables() that does not spare the entry node.
RECURSIVE removeNotReachablesWithEntry(_)
removeNotReachablesWithEntry(G) ==
  LET found == SelectSeq(G.BlockNodes, LAMBDA n : predecessor_size(G, n) = 0) IN
  IF found = <<>> THEN G ELSE removeNotReachablesWithEntry(removeNode(G, found[1]))

\* RegionCFG::removeNotReachables()
RECURSIVE removeNotReachables(_)
removeNotReachables(G) ==
  LET found == SelectSeq(G.BlockNodes, LAMBDA n : n # EntryNode /\ predecessor_size(G, n) = 0) IN
  IF found = <<>> THEN G ELSE removeNotReachables(removeNode(G, found[1]))

\* The end of generateAst(): removeNotReachables() and purgeDummies().
GenerateAstEnd ==
  /\ pc = "built"
  /\ LET G1 == purgeDummies(removeNotReachables(Graph)).Graph
     IN /\ Graph' = G1
        /\ IF Dangling(G1)
           THEN Undefined("purgeDummies: edge to a removed node")
           ELSE pc' = "done" /\ UNCHANGED Failure
  /\ UNCHANGED <<Input, untangleVars, inflateVars, astVars>>

Next ==
  \/ UntangleBegin
  \/ UntangleStep
  \/ UntangleEnd
  \/ InflateBegin
  \/ InflatePick
  \/ InflateIter
  \/ InflateEnd
  \/ GenerateAst
  \/ GenerateAstEnd

Spec == Init /\ [][Next]_vars

\* The pipeline on the larger graphs.
SpecLarger == InitLarger /\ [][Next]_vars

\* The pipeline on the diamond.
SpecDiamond == InitDiamond /\ [][Next]_vars

\* The pipeline on the graphs with two conditionals and one join.
SpecJoin == InitJoin /\ [][Next]_vars

\* A call of purgeDummies(), and a second call on the graph the first left.
CallPurgeDummies ==
  /\ pc \in {"purgeDummies", "purged"}
  /\ LET r == purgeDummies(Graph)
     IN /\ Graph' = r.Graph
        /\ Edit' = [NoEdit EXCEPT !.Kind = "purge", !.Removed = r.RemovedNodes]
  /\ pc' = IF pc = "purgeDummies" THEN "purged" ELSE "purgedAgain"
  /\ UNCHANGED <<Input, Failure, untangleVars, ConditionalNodesComplete, NodesEquivalenceClass,
                 CloneToOriginalMap, RevPostOrderList, Conditional, WorkList, Visited, ListIt, astVars>>

NextPurge == CallPurgeDummies

SpecPurge == InitPurge /\ [][NextPurge]_vars

\* purgeVirtualSink() is about to be called, as at the end of untangle() and
\* of inflate(), on a graph of MaxNodes nodes, some of them empty but not
\* all (a region holds at least one node that is not a dummy), to which the
\* sink has been added.
InitSink ==
  \E succ \in SuccessorTables(1, MaxNodes) :
    \E type \in PurgeTypeTables(MaxNodes, succ) :
      /\ \E n \in 1..MaxNodes : type[n] # "Empty"
      /\ WellFormed(MakeGraph(MaxNodes, succ, type, UnitWeights(MaxNodes, type)))
      /\ Input = MakeGraph(MaxNodes, succ, type, UnitWeights(MaxNodes, type))
      /\ Graph = addSink(Input)
      /\ Sink = Input.NextID
      /\ pc = "purgeVirtualSink"
      /\ ConditionalNodes = <<>>
      /\ PostDominatorMap = <<>>
      /\ Split = NoSplit
      /\ Failure = ""
      /\ ConditionalNodesComplete = {}
      /\ NodesEquivalenceClass = <<>>
      /\ CloneToOriginalMap = <<>>
      /\ RevPostOrderList = <<>>
      /\ Conditional = 0
      /\ WorkList = {}
      /\ Visited = {}
      /\ ListIt = 0
      /\ Edit = NoEdit
      /\ AST = <<>>
      /\ RootNode = NoTree

\* A call of purgeVirtualSink(Sink).
CallPurgeVirtualSink ==
  /\ pc = "purgeVirtualSink"
  /\ LET r == purgeVirtualSink(Graph, Sink)
     IN /\ Graph' = r.Graph
        /\ IF r.Freed > 0
           THEN Undefined("purgeVirtualSink: removeNode of a removed node")
           ELSE IF Dangling(r.Graph)
           THEN Undefined("purgeVirtualSink: edge to a removed node")
           ELSE pc' = "sinkPurged" /\ UNCHANGED Failure
  /\ UNCHANGED <<Input, Sink, ConditionalNodes, PostDominatorMap, Split, inflateVars, astVars>>

NextSink == CallPurgeVirtualSink

SpecSink == InitSink /\ [][NextSink]_vars

\* The longest list of nodes of a Sequence the post-passes are called on.
MaxList == 2

\* A CodeNode of a block that is empty or not, and an IfNode with its
\* branches.
CodeTree(empty) ==
  [Kind |-> "Code", Node |-> 0, IsEmpty |-> empty,
   Then |-> NoTree, Else |-> NoTree, Next |-> NoTree, List |-> <<>>]

IfTree(then, else) ==
  [Kind |-> "If", Node |-> 0, IsEmpty |-> FALSE,
   Then |-> then, Else |-> else, Next |-> NoTree, List |-> <<>>]

\* The Sequences of at most MaxList nodes out of Elements.
SequencesOf(Elements) ==
  {SequenceNode(list) : list \in UNION {[1..k -> Elements] : k \in 0..MaxList}}

\* The trees createSequence() leaves: a Sequence at the root and in every
\* branch of an IfNode, and no Sequence as a node of a Sequence.
SequenceTrees ==
  LET Codes == {CodeTree(empty) : empty \in BOOLEAN}
      Branches == {NoTree} \cup SequencesOf(Codes)
      Ifs == {IfTree(then, else) : then \in Branches, else \in Branches}
  IN SequencesOf(Codes \cup Ifs)

\* generateAst() has run createSequence() and the AST has the root Root.
InitSequence ==
  \E Root \in SequenceTrees :
    /\ Input = MakeGraph(1, <<<<>>>>, <<"Code">>, <<1>>)
    /\ Graph = Input
    /\ pc = "simplifyDummies"
    /\ Sink = 0
    /\ ConditionalNodes = <<>>
    /\ PostDominatorMap = <<>>
    /\ Split = NoSplit
    /\ Failure = ""
    /\ ConditionalNodesComplete = {}
    /\ NodesEquivalenceClass = <<>>
    /\ CloneToOriginalMap = <<>>
    /\ RevPostOrderList = <<>>
    /\ Conditional = 0
    /\ WorkList = {}
    /\ Visited = {}
    /\ ListIt = 0
    /\ Edit = NoEdit
    /\ AST = <<>>
    /\ RootNode = Root

\* The two passes generateAst() runs after createSequence().
CallSimplify ==
  /\ pc = "simplifyDummies"
  /\ RootNode' = simplifyAtomicSequence(simplifyDummies(RootNode))
  /\ pc' = "simplified"
  /\ UNCHANGED <<Graph, Input, Failure, untangleVars, inflateVars, AST>>

NextSequence == CallSimplify

SpecSequence == InitSequence /\ [][NextSequence]_vars

(***************************************************************************)
(* Properties.                                                             *)
(***************************************************************************)

HasClone(G) == \E n \in Nodes(G) : G.Original[n] # n

\* inflate() has returned.
Inflated == pc \in {"ast", "built", "done"}

\* The run is over: the pipeline has returned, or it has stopped at a failed
\* assertion, or at a use of a removed node or of an iterator off the list.
Ended == pc \in {"done", "aborted", "undefined"}

\* C1: on every single-entry acyclic input, the graph inflate() works on and
\* the graph it leaves are DAGs: isDAG() holds after untangle(), after every
\* dummy insertion, duplication, purge and edge move, and when inflate()
\* has returned.
C1_InflateOutputIsDAG == isDAG(Graph)

\* inflate() has returned a graph that holds a clone.
C1_Witness == pc = "ast" /\ HasClone(Graph) /\ isDAG(Graph)

\* The assertions and aborts of the loop of generateAst().
GenerateAstFailures ==
  { "generateAst: Children.size() < 4",
    "generateAst: Then and else branches cannot be matched",
    "generateAst: revng_abort()",
    "generateAst: getTrue() of a Check node without two successors",
    "generateAst: ASTDT[Node] is null" }

\* C2: in the dominator tree generateAst() computes of the graph inflate()
\* left, every node has at most three children, and generateAst() fails
\* none of its assertions and reaches none of its aborts.
C2_GenerateAstNeverFails ==
  /\ pc = "ast" =>
       LET kids == DomTreeChildren(Graph)
       IN \A n \in DOMAIN kids : Len(kids[n]) \in 0..3
  /\ Failure \notin GenerateAstFailures

\* No loop of inflate() is at a point from which it cannot go on: the cap on
\* the allocated nodes is not reached, and the worklist loop runs with a
\* worklist that is not empty.
NotBlocked == Graph.NextID <= MaxID /\ (pc = "worklist" => WorkList # {})

\* An iteration of the worklist loop allocates a node or moves ListIt
\* forward in the list, and an iteration of the loop over the conditionals
\* takes one conditional off the list: with the number of allocated nodes
\* bounded, the triple (nodes left to allocate, conditionals left, list
\* positions left) decreases at every step.
LoopProgress ==
  /\ (pc = "worklist" /\ pc' \in {"worklist", "comb"}) =>
       \/ Graph'.NextID > Graph.NextID
       \/ /\ IndexOf(RevPostOrderList', ListIt') > IndexOf(RevPostOrderList, ListIt)
          /\ RevPostOrderList' = RevPostOrderList
          /\ ConditionalNodes' = ConditionalNodes
  /\ (pc = "comb" /\ pc' \in {"worklist", "comb"}) =>
       Len(ConditionalNodes') < Len(ConditionalNodes) /\ Graph'.NextID = Graph.NextID

\* C3: inflate() terminates: the worklist loop of every conditional and the
\* loop over the conditionals, cloned conditionals included, make progress
\* at every iteration and are never blocked, so that every run reaches the
\* end of inflate() or stops at a failed assertion or at a use of a removed
\* node.
C3_InflateTerminates == []NotBlocked /\ [][LoopProgress]_vars

\* inflate() has returned after it cloned a conditional node and processed
\* the clone.
C3_Witness ==
  /\ pc = "ast"
  /\ \E c \in ConditionalNodesComplete : c \in Nodes(Graph) /\ Graph.Original[c] # c

\* C5: when purgeDummies() returns, no empty node with one predecessor and
\* one successor is left, every node it returns as removed is gone from the
\* node list and from every successor and predecessor list, and the
\* predecessor and the successor of a removed dummy that are still there
\* are joined by an edge.
C5_PurgeDummiesRemovesChains ==
  pc \in {"purged", "purgedAgain"} =>
    /\ \A n \in Nodes(Graph) : ~isPurgeable(Graph, n)
    /\ \A r \in Range(Edit.Removed) : r \notin Nodes(Graph)
    /\ ~Dangling(Graph)
    /\ \A d \in Nodes(Input) :
         isPurgeable(Input, d) =>
           LET A == CHOOSE a \in Input.Predecessors[d] : TRUE
               B == Input.Successors[d][1]
           IN /\ d \notin Nodes(Graph)
              /\ (A \in Nodes(Graph) /\ B \in Nodes(Graph)) =>
                   (B \in Range(Graph.Successors[A]) /\ A \in Graph.Predecessors[B])

\* C6: a second call of purgeDummies() right after a first one returns no
\* removed node and leaves the node list and every successor and
\* predecessor list as they were.
C6_PurgeDummiesIdempotent ==
  [][pc = "purged" => (Graph' = Graph /\ Edit'.Removed = <<>>)]_vars

\* The second call has returned, and the first had removed a node.
C6_Witness ==
  pc = "purgedAgain" /\ Cardinality(Nodes(Graph)) < Cardinality(Nodes(Input))

\* The nodes of G that are n or clones of n.
EquivalenceClass(G, n) == {m \in Nodes(G) : G.Original[m] = n}

\* Every node of the input is outweighed by its equivalence class.
WeightKept ==
  \A n \in Nodes(Input) :
    SumOver(Restrict(Graph.Weight, EquivalenceClass(Graph, n)), EquivalenceClass(Graph, n))
      >= Input.Weight[n]

\* A clone weighs what its original weighs, a dummy or a sink nothing.
WeightCopied ==
  \A m \in Nodes(Graph) :
    Graph.Weight[m] = IF Graph.Original[m] \in Nodes(Input)
                      THEN Input.Weight[Graph.Original[m]] ELSE 0

\* A step of untangle() or inflate() removes no node of non-zero weight.
WeightlessRemoved ==
  pc' \in {"untangle", "inflate", "comb", "worklist", "ast", "undefined", "aborted"} =>
    \A n \in Nodes(Graph) \ Nodes(Graph') : Graph.Weight[n] = 0

\* C7: during and after untangle() and inflate() the weights of a node of
\* the input and of its clones that are in the graph sum to at least the
\* weight of the node, a clone has the weight of its original, and no node
\* of non-zero weight is removed.
C7_WeightMonotone == [](WeightKept /\ WeightCopied) /\ [][WeightlessRemoved]_vars

\* inflate() has returned a graph that holds a clone of the heavy node, and
\* the last edit purged a dummy.
C7_Witness ==
  /\ pc = "ast"
  /\ \E m \in Nodes(Graph) : Graph.Original[m] # m /\ Graph.Weight[m] = MaxWeight
  /\ \E n \in Nodes(Input) : n \notin Nodes(Graph)

\* No node of G has more than one incoming edge.
Structured(G) == \A n \in Nodes(G) : predecessor_size(G, n) <= 1

\* The empty nodes from which every path to an exit runs over empty nodes
\* only: the nodes purgeVirtualSink removes with the sink.
EmptyToExit(G) ==
  {n \in Nodes(G) : isEmpty(G, n) /\ \A m \in Reach(G, n, {}) : isEmpty(G, m)}

SameTopology(G, H) ==
  /\ Nodes(G) = Nodes(H)
  /\ \A n \in Nodes(G) :
       G.Successors[n] = H.Successors[n] /\ G.Predecessors[n] = H.Predecessors[n]

\* The AST has one object for every node of the graph.
OneASTNodePerNode == DOMAIN AST = Nodes(Graph) /\ \A n \in DOMAIN AST : AST[n].Kind # "Null"

RoundTrip ==
  /\ Failure = ""
  /\ ~HasClone(Graph)
  /\ Inflated => SameTopology(Graph, Input)
  /\ pc \in {"built", "done"} => OneASTNodePerNode

\* C8 as stated: on an input where no node has more than one incoming edge,
\* untangle() and inflate() leave the nodes and the edges as they were and
\* generateAst() builds one AST node per node.
C8_StructuredInputUnchanged == Structured(Input) => RoundTrip

\* C8, amended: the same on a structured input in which no empty node has
\* exactly one predecessor and one successor and no empty node reaches the
\* exits over empty nodes only.
C8_StructuredInputWithoutDummiesUnchanged ==
  (Structured(Input) /\ EmptyToExit(Input) = {} /\ \A n \in Nodes(Input) : ~isPurgeable(Input, n))
    => RoundTrip

\* The AST of a structured input with a Check node and an empty entry has
\* been built.
C8_Witness ==
  /\ pc = "built"
  /\ Structured(Input)
  /\ \A n \in Nodes(Input) : ~isPurgeable(Input, n)
  /\ \E n \in Nodes(Input) : isCheck(Input, n)
  /\ SameTopology(Graph, Input)

C10_DiamondWeights ==
  (pc = "untangle" /\ Split.Conditional = 1 /\ Input.Weight[5] = 0) =>
    /\ Split.PostDominator = 4
    /\ Split.ThenWeight = 1 /\ Split.ElseWeight = 100
    /\ Split.TwoWeight = 2 /\ Split.ThreeWeight = 101 /\ Split.OneWeight = 101

\* The join of an input graph of InitJoin: its last node.
Join == Len(Input.BlockNodes)

\* The nodes inflate() has added so far: the dummies map to themselves in
\* CloneToOriginalMap, the clones to their original.
DummiesInserted == {n \in DOMAIN CloneToOriginalMap : n > Sink /\ CloneToOriginalMap[n] = n}

ClonesInserted == {n \in DOMAIN CloneToOriginalMap : CloneToOriginalMap[n] # n}

\* No dummy of inflate() with one predecessor and one successor is in the
\* graph when an iteration of the worklist loop has ended.
DummiesPurged ==
  pc \in {"comb", "worklist", "ast"} =>
    \A n \in Nodes(Graph) : (n > Sink /\ Sink # 0) => ~isPurgeable(Graph, n)

JoinClonedOnlyWhenNarrow ==
  (pc = "worklist" /\ pc' # "undefined" /\ Edit'.Kind = "clone" /\ Edit'.Candidate = Join)
    => \/ predecessor_size(Graph, Join) <= 2
       \/ ~(DummiesInserted \subseteq Nodes(Graph))

\* Every dummy is inserted at the join, as the post-dominator of the
\* conditional at hand, and there are never more dummies than the join
\* has incoming edges beyond two; with three incoming edges inflate()
\* returns after it inserted one dummy.
DummiesOnlyAtJoin ==
  /\ Edit.Kind = "dummy" => Edit.Candidate = Join /\ Edit.IsPostDom
  /\ Cardinality(DummiesInserted) <= predecessor_size(Input, Join) - 2
  /\ (pc = "ast" /\ predecessor_size(Input, Join) = 3) => Cardinality(DummiesInserted) = 1

DuplicatedEdges(G) ==
  {n \in Nodes(G) : \E i, j \in DOMAIN G.Successors[n] : i < j /\ G.Successors[n][i] = G.Successors[n][j]}

\* C12: in every state of untangle(), inflate() and purgeDummies() no node
\* has two edges to the same target, also when purgeDummies() reconnects A
\* to B and A already has an edge to B.
C12_NoDuplicatedEdge == DuplicatedEdges(Graph) = {}

\* C13: in every state during and after untangle(), inflate() and
\* purgeDummies() every Check node, original or clone, has two successors,
\* and its true edge and its false edge go to two distinct nodes.
C13_CheckNodesTwoDistinctSuccessors ==
  \A n \in Nodes(Graph) :
    isCheck(Graph, n) =>
      /\ Len(Graph.Successors[n]) = 2
      /\ getTrue(Graph, n) # getFalse(Graph, n)

\* C14: after the removals of purgeDummies(), purgeVirtualSink() and
\* removeNotReachables() no node of the graph lists a removed node among
\* its successors or predecessors, and the nodes returned as removed are
\* no longer in the node list.
C14_NoReferenceToRemovedNode ==
  /\ ~Dangling(Graph)
  /\ \A r \in Range(Edit.Removed) : r \notin Nodes(Graph)

\* The post-dominator the next iteration of the loop of untangle() takes
\* from PostDominatorMap is the immediate post-dominator of its conditional
\* in the tree that iteration recomputes.
PostDominatorLookupFresh ==
  (pc = "untangle" /\ ConditionalNodes # <<>>) =>
    LET Cond == ConditionalNodes[Len(ConditionalNodes)]
    IN PostDominatorMap[Cond] = ImmediatePostDominator(Graph, Cond, Sink)

\* In an iteration of untangle() that splits, the graph the DT.dominates
\* calls of the split are made on, the one cloneUntilExit has left, is the
\* graph the tree was computed from at the top of the iteration.
SplitQueriesFresh ==
  (pc = "untangle" /\ Split'.Clones > 0) =>
    cloneUntilExit(Graph, Split'.PostDominator, Sink).Graph = Graph

\* C15: in untangle() every dominance query and every immediate
\* post-dominator it works with comes from a tree recomputed after the last
\* change of the graph.
C15_QueriesOnRecomputedTrees ==
  /\ []PostDominatorLookupFresh
  /\ [][SplitQueriesFresh]_vars

\* C16: no branch of the dispatch of generateAst() registers a null AST
\* object, and when the loop of generateAst() has finished every node of
\* the graph has its AST object and every AST object belongs to one node of
\* the graph.
C16_OneNonNullASTNodePerNode ==
  /\ \A n \in DOMAIN AST : AST[n].Kind # "Null"
  /\ pc = "built" => DOMAIN AST = Nodes(Graph)
  /\ pc = "done" => Nodes(Graph) \subseteq DOMAIN AST

\* generateAst() has finished on a graph with a Check node that has one
\* child in the dominator tree, its false successor, and has registered an
\* IfCheck object with that branch alone.
C16_Witness ==
  /\ pc = "built"
  /\ \E n \in DOMAIN AST :
       /\ isCheck(Graph, n)
       /\ AST[n].Kind = "IfCheck"
       /\ AST[n].Then = 0 /\ AST[n].Else # 0 /\ AST[n].Next = 0

\* What a split of the arm that starts at Child does in a step of the loop
\* of untangle(): every node from the post-dominator to the sink, the sink
\* excepted, gets one clone; the clone of the post-dominator takes the
\* edges of the predecessors that Child dominates and that of the
\* conditional, and the post-dominator keeps the others.
SplitDone(Child) ==
  LET P == Split'.PostDominator
      Cond == Split'.Conditional
      moved == {p \in Graph.Predecessors[P] : dominates(Graph, Child, p) \/ p = Cond}
      clones == Nodes(Graph') \ Nodes(Graph)
      cloned == Reach(Graph, P, {}) \ {Sink}
  IN /\ Cardinality(clones) = Cardinality(cloned)
     /\ \A n \in cloned : \E c \in clones : Graph'.Original[c] = Graph.Original[n]
     /\ \E Pc \in clones :
          /\ Graph'.Original[Pc] = Graph.Original[P]
          /\ Graph'.Predecessors[Pc] = moved
          /\ \A p \in moved : Pc \in Range(Graph'.Successors[p])
     /\ Graph'.Predecessors[P] = Graph.Predecessors[P] \ moved
     /\ \A p \in Graph.Predecessors[P] \ moved : Graph'.Successors[p] = Graph.Successors[p]

\* The step is an iteration of the loop of untangle() that did not give up
\* at the abort checks and found weight 2 and weight 1 greater than weight
\* 3 (split of the `else` arm), or weight 3 and weight 1 greater than
\* weight 2 (split of the `then` arm).
ElseSplitDue ==
  /\ pc = "untangle" /\ ConditionalNodes' # ConditionalNodes
  /\ Split'.TwoWeight > Split'.ThreeWeight /\ Split'.OneWeight > Split'.ThreeWeight

ThenSplitDue ==
  /\ pc = "untangle" /\ ConditionalNodes' # ConditionalNodes
  /\ Split'.ThreeWeight > Split'.TwoWeight /\ Split'.OneWeight > Split'.TwoWeight

ArmExits(It, i) == ReachableExits(Graph, Graph.Successors[It][i])

ArmIsDominated(It, i) == \A Exit \in ArmExits(It, i) : dominates(Graph', It, Exit)

\* The step is the prologue of inflate(), which fills the list of the
\* conditionals.
SelectsConditionals == pc = "inflate" /\ pc' = "comb"

\* C18 as stated: inflate() blacklists a node with two successors exactly
\* when the exits its two arms reach are disjoint and the exits of each arm
\* are all dominated; every other node with two successors is a conditional.
C18_BlacklistBothArmsDominated ==
  [][SelectsConditionals =>
       \A It \in Nodes(Graph) :
         successor_size(Graph, It) = 2 =>
           (It \notin ConditionalNodesComplete' <=>
              /\ ArmExits(It, 1) \cap ArmExits(It, 2) = {}
              /\ ArmIsDominated(It, 1) /\ ArmIsDominated(It, 2))]_vars

\* C18, amended: inflate() blacklists a node with two successors exactly
\* when the exits its two arms reach are disjoint and the node dominates
\* all the exits of at least one arm; every other node with two successors
\* is a conditional, and no other node is.
C18_BlacklistOneArmDominated ==
  [][SelectsConditionals =>
       /\ \A It \in Nodes(Graph) :
            successor_size(Graph, It) = 2 =>
              (It \notin ConditionalNodesComplete' <=>
                 /\ ArmExits(It, 1) \cap ArmExits(It, 2) = {}
                 /\ ArmIsDominated(It, 1) \/ ArmIsDominated(It, 2))
       /\ \A It \in ConditionalNodesComplete' : successor_size(Graph, It) = 2
       /\ Range(ConditionalNodes') = ConditionalNodesComplete']_vars

\* inflate() has filled the list of the conditionals: it holds a node, and
\* another node with two successors is blacklisted though one of its arms
\* reaches an exit that the node does not dominate.
C18_Witness ==
  /\ pc = "comb" /\ Conditional = 0
  /\ ConditionalNodes # <<>>
  /\ \E It \in Nodes(Graph) \ ConditionalNodesComplete :
       /\ successor_size(Graph, It) = 2
       /\ \E i \in 1..2 : \E Exit \in Graph.Predecessors[Sink] :
            /\ Exit \in Reach(Graph, Graph.Successors[It][i], {})
            /\ ~dominates(Graph, It, Exit)

\* The conditionals of the list inflate() filled at its start, the clones
\* it enqueued later left out, that are in the reverse post-order list.
OriginalConditionals(L) == {c \in Range(L) : c < Sink /\ c \in Range(RevPostOrderList)}

\* The step takes the next conditional from the pending list.
TakesConditional == pc = "comb" /\ ConditionalNodes # <<>> /\ Conditional' # 0

\* C19 as stated: inflate() processes the conditionals in reverse
\* post-order: the conditional it takes from the pending list comes, in the
\* reverse post-order from the entry, before every conditional still
\* pending, clones excepted.
C19_ConditionalsInReversePostOrder ==
  [][TakesConditional =>
       \A d \in OriginalConditionals(ConditionalNodes') :
         Conditional' \in OriginalConditionals(ConditionalNodes) =>
           IndexOf(RevPostOrderList, Conditional') < IndexOf(RevPostOrderList, d)]_vars

\* The step is an iteration of the worklist loop whose candidate is in the
\* equivalence class of the tracked post-dominator of the conditional and
\* has a predecessor that is not visited; the iteration inserts a node.
PostDominatorNotReady ==
  /\ pc = "worklist"
  /\ Edit'.Kind \in {"dummy", "clone"}
  /\ PostDominatorMap[Conditional] \in DOMAIN NodesEquivalenceClass
  /\ Edit'.Candidate \in NodesEquivalenceClass[PostDominatorMap[Conditional]]
  /\ ~(Graph.Predecessors[Edit'.Candidate] \subseteq Visited)

\* The iteration inserts a new empty node in front of the candidate, and,
\* when the purge of the iteration removes nothing, the dummy has the edges
\* of the visited predecessors, the candidate those of the others and that
\* of the dummy, and the candidate is in the worklist and not visited.
DummyInserted ==
  LET Candidate == Edit'.Candidate
      Dummy == Edit'.New
  IN /\ Edit'.Kind = "dummy"
     /\ Dummy \notin Nodes(Graph)
     /\ Edit'.Removed = <<>> =>
          /\ isEmpty(Graph', Dummy)
          /\ Graph'.Predecessors[Dummy] = Graph.Predecessors[Candidate] \cap Visited
          /\ Graph'.Successors[Dummy] = <<Candidate>>
          /\ Graph'.Predecessors[Candidate] = (Graph.Predecessors[Candidate] \ Visited) \cup {Dummy}
          /\ \A p \in Graph.Predecessors[Candidate] \ Visited :
               Graph'.Successors[p] = Graph.Successors[p]
          /\ Candidate \in WorkList' /\ Candidate \notin Visited'

\* The iteration clones the candidate, and, when the purge of the
\* iteration removes nothing, the clone has the edges of the predecessors
\* that are not visited and the candidate is visited.
CandidateCloned ==
  LET Candidate == Edit'.Candidate
      Duplicated == Edit'.New
  IN /\ Edit'.Kind = "clone"
     /\ Duplicated \notin Nodes(Graph)
     /\ Edit'.Removed = <<>> =>
          /\ Graph'.Original[Duplicated] = Graph.Original[Candidate]
          /\ Graph'.Predecessors[Duplicated] = Graph.Predecessors[Candidate] \ Visited
          /\ Graph'.Predecessors[Candidate] = Graph.Predecessors[Candidate] \cap Visited
          /\ Candidate \in Visited' /\ Candidate \notin WorkList'

\* C20 as stated: whenever the candidate is the tracked post-dominator of
\* the conditional and has a predecessor that is not visited, inflate()
\* inserts a dummy, and no clone, that takes the edges of the visited
\* predecessors, and puts the candidate back in the worklist, not visited.
C20_PostDominatorGetsDummy ==
  [][PostDominatorNotReady => DummyInserted]_vars

\* C20, amended: in that case inflate() inserts the dummy when the
\* candidate has more than two predecessors, and otherwise clones the
\* candidate: the clone takes the edges of the predecessors that are not
\* visited and the candidate stays visited.
C20_PostDominatorGetsDummyIfWide ==
  [][PostDominatorNotReady =>
       IF predecessor_size(Graph, Edit'.Candidate) > 2 THEN DummyInserted ELSE CandidateCloned]_vars

\* An iteration has inserted a dummy in front of the tracked post-dominator,
\* which keeps a predecessor that was not visited and is in the worklist.
C20_Witness ==
  /\ pc = "worklist"
  /\ Edit.Kind = "dummy" /\ Edit.IsPostDom /\ Edit.Removed = <<>>
  /\ Edit.New \in Nodes(Graph)
  /\ Graph.Predecessors[Edit.New] # {}
  /\ Graph.Predecessors[Edit.Candidate] \ {Edit.New} # {}
  /\ Edit.Candidate \in WorkList /\ Edit.Candidate \notin Visited

\* C21: after the purge that ends an iteration of the worklist loop which
\* inserted a dummy or a clone, the worklist, the visited set and the
\* reverse post-order list hold no removed node, the list holds every node
\* reachable from the entry, and ListIt is at an element of the list.
C21_PurgeKeepsListsConsistent ==
  Edit.Kind \in {"dummy", "clone"} =>
    /\ (WorkList \cup Visited \cup Range(RevPostOrderList)) \cap Range(Edit.Removed) = {}
    /\ (WorkList \cup Visited \cup Range(RevPostOrderList)) \subseteq DOMAIN Graph.Successors
    /\ Reach(Graph, EntryNode, {}) \cap DOMAIN Graph.Successors \subseteq Range(RevPostOrderList)
    /\ ListIt \in Range(RevPostOrderList)

\* The purge of an iteration that inserted a node has removed nodes, among
\* them the node ListIt was at or one that was visited or in the worklist,
\* and the worklist loop goes on.
C21_Witness ==
  /\ pc = "worklist"
  /\ Edit.Kind \in {"dummy", "clone"}
  /\ Edit.Removed # <<>>
  /\ Edit.Candidate \in Range(Edit.Removed) \/ Edit.New \in Range(Edit.Removed)

\* The AST object of the Check node n, which has the three children kids
\* in the dominator tree, is an IfCheck with the true successor of n as
\* then, its false successor as else and the third child as follow node.
IfCheckMatched(n, kids) ==
  /\ AST[n].Kind = "IfCheck"
  /\ AST[n].Then = getTrue(Graph, n)
  /\ AST[n].Else = getFalse(Graph, n)
  /\ {AST[n].Then, AST[n].Else, AST[n].Next} = Range(kids)

ThreeChildrenMatched(children) ==
  \A n \in DOMAIN AST :
    (isCheck(Graph, n) /\ Len(children[n]) = 3) => IfCheckMatched(n, children[n])

HasSwappedIfCheck(children) ==
  \E n \in DOMAIN AST :
    /\ isCheck(Graph, n) /\ Len(children[n]) = 3
    /\ AST[n].Then = children[n][3] /\ AST[n].Else = children[n][1]
    /\ AST[n].Next = children[n][2]

RECURSIVE HasAtomicSequence(_)
HasAtomicSequence(t) ==
  IF t.Kind = "Null" THEN FALSE
  ELSE IF t.Kind = "Sequence"
  THEN Len(t.List) = 1 \/ \E i \in 1..Len(t.List) : HasAtomicSequence(t.List[i])
  ELSE IF isIfNode(t) THEN HasAtomicSequence(t.Then) \/ HasAtomicSequence(t.Else)
  ELSE FALSE

\* simplifyAtomicSequence() has returned.
Simplified == pc \in {"simplified", "built", "done"}

IterationVisits == Visited' \ Visited # {}

IterationGrows == Graph'.NextID = Graph.NextID + 1

IterationOnlyAdvances ==
  /\ Graph' = Graph /\ Visited' = Visited /\ WorkList' = WorkList
  /\ IndexOf(RevPostOrderList, ListIt') = IndexOf(RevPostOrderList, ListIt) + 1
  /\ ListIt' \notin WorkList

IterationBreaks ==
  pc' = "comb" /\ Graph' = Graph /\ Visited' = Visited /\ WorkList' = WorkList

\* The dummy an iteration inserted, if the purge left it, is in the worklist
\* and is the node of the list the next iteration looks at.
DummyIsNext ==
  (Edit'.Kind = "dummy" /\ Edit'.New \in DOMAIN Graph'.Successors) =>
    /\ Edit'.New \in WorkList'
    /\ IndexOf(RevPostOrderList', Edit'.New) = IndexOf(RevPostOrderList', ListIt') + 1

\* C24 as stated: every iteration of the worklist loop adds a node to
\* Visited or creates one dummy or clone (or ends the loop at the
\* post-dominator); no iteration does neither.
C24_IterationVisitsOrGrows ==
  [][pc = "worklist" => (IterationVisits \/ IterationGrows \/ IterationBreaks)]_vars

\* C24, amended: every iteration of the worklist loop adds a node to Visited,
\* creates exactly one dummy or clone, ends the loop at the post-dominator,
\* or only moves the cursor one position forward over a node that is not in
\* the worklist; a node leaves Visited only when the purge removes it from
\* the graph, and a dummy that survives the purge is in the worklist and
\* next in the list.
C24_IterationVisitsGrowsOrAdvances ==
  [][pc = "worklist" =>
       /\ IterationVisits \/ IterationGrows \/ IterationBreaks \/ IterationOnlyAdvances
       /\ Graph'.NextID \in {Graph.NextID, Graph.NextID + 1}
       /\ (Visited \ Visited') \cap DOMAIN Graph'.Successors = {}
       /\ DummyIsNext]_vars

\* An iteration has only moved the cursor, after another one visited a node.
C24_Witness ==
  /\ pc = "worklist"
  /\ Edit.Kind = "skip"
  /\ Visited # {Conditional}

\* The conditionals inflate() has still to process, and the one it is
\* processing.
PendingConditionals ==
  Range(ConditionalNodes) \cup (IF pc = "worklist" THEN {Conditional} ELSE {})

\* C25: throughout inflate(), the node PostDominatorMap records for a
\* conditional that is pending or being processed, which is also the key
\* looked up in NodesEquivalenceClass, is a node of the graph: no dummy
\* installed as the post-dominator of a conditional is purged while the
\* conditional refers to it.
C25_TrackedPostDominatorInGraph ==
  pc \in {"comb", "worklist"} =>
    \A C \in PendingConditionals :
      C \in DOMAIN PostDominatorMap => PostDominatorMap[C] \in DOMAIN Graph.Successors

\* The empty nodes of G from which a node of the set Found is reached over
\* empty nodes only, with Found.
RECURSIVE EmptyAncestors(_, _)
EmptyAncestors(G, Found) ==
  LET more == {n \in Nodes(G) \ Found :
                 isEmpty(G, n) /\ Range(G.Successors[n]) \cap Found # {}}
  IN IF more = {} THEN Found ELSE EmptyAncestors(G, Found \cup more)

\* purgeVirtualSink(Sink) called on G has left After.
SinkPurged(G, After) ==
  /\ Nodes(After) = Nodes(G) \ EmptyAncestors(G, {Sink})
  /\ \A n \in Nodes(G) \ Nodes(After) : isEmpty(G, n)
  /\ LET PurgeList == PurgeListFrom(G, <<Sink>>, <<>>)
     IN Len(PurgeList) = Cardinality(Range(PurgeList))

C27_UntanglePostDominatorStillImmediate ==
  (pc = "untangle" /\ ConditionalNodes # <<>>) =>
    LET Taken == ConditionalNodes[Len(ConditionalNodes)]
        P == PostDominatorMap[Taken]
    IN /\ P \in Nodes(Graph)
       /\ P = ImmediatePostDominator(Graph, Taken, Sink)

\* The step is an iteration of the loop of untangle() that has cloned.
UntangleIterationSplits ==
  pc = "untangle" /\ ConditionalNodes' # ConditionalNodes /\ Graph'.NextID > Graph.NextID

\* The clones of the post-dominator the iteration has made.
PostDominatorClones ==
  {c \in Nodes(Graph') \ Nodes(Graph) :
     Graph'.Original[c] = Graph.Original[Split'.PostDominator]}

\* C28: an iteration of untangle() splits only when one of the two criteria
\* holds and the post-dominator is not the sink, and then always; it never
\* runs both splits; the clone of the post-dominator takes at least one of
\* the predecessor edges of the post-dominator, so that the assertion
\* PostDominatorClone->predecessor_size() > 0 holds.
C28_SplitMovesAnEdge ==
  [][/\ Failure' # "untangle: PostDominatorClone->predecessor_size() > 0"
     /\ UntangleIterationSplits =>
          /\ Split'.PostDominator # Sink
          /\ ElseSplitDue \/ ThenSplitDue
          /\ Cardinality(PostDominatorClones) = 1
          /\ \A c \in PostDominatorClones :
               /\ Graph'.Predecessors[c] # {}
               /\ Graph'.Predecessors[c] \subseteq Graph.Predecessors[Split'.PostDominator]
               /\ Graph'.Predecessors[c] \cap Graph'.Predecessors[Split'.PostDominator] = {}
     /\ ((ElseSplitDue \/ ThenSplitDue) /\ Split'.PostDominator # Sink) => UntangleIterationSplits
     /\ ~(ElseSplitDue /\ ThenSplitDue)]_vars

\* An iteration of untangle() has split and the clone of the post-dominator
\* has taken the edge that came from the conditional itself.
C28_Witness ==
  /\ pc = "untangle"
  /\ Split.Clones > 0
  /\ \E c \in Nodes(Graph) :
       /\ c # Split.PostDominator
       /\ Graph.Original[c] = Graph.Original[Split.PostDominator]
       /\ Split.Conditional \in Graph.Predecessors[c]

\* C29: in the worklist loop of inflate() the cursor ListIt is at a node of
\* RevPostOrderList that is not the last one while the worklist is non-empty,
\* so that ++ListIt never reaches end(), --ListIt never leaves begin() and
\* every *ListIt is a node of the list.
C29_CursorStaysInsideList ==
  /\ Failure \notin {"inflate: *ListIt at end()", "inflate: --ListIt at begin()",
                     "inflate: ListIt != RevPostOrderList.end()"}
  /\ (pc = "worklist" /\ WorkList # {}) =>
       /\ ListIt \in Range(RevPostOrderList)
       /\ IndexOf(RevPostOrderList, ListIt) < Len(RevPostOrderList)
       /\ \E n \in WorkList :
            IndexOf(RevPostOrderList, n) > IndexOf(RevPostOrderList, ListIt)

\* A dummy has been inserted in front of the candidate and the cursor has
\* moved two positions back, onto the node in front of the dummy.
C29_Witness ==
  /\ pc = "worklist"
  /\ Edit.Kind = "dummy"
  /\ Edit.New \in Range(RevPostOrderList)
  /\ IndexOf(RevPostOrderList, Edit.New) = IndexOf(RevPostOrderList, ListIt) + 1
  /\ IndexOf(RevPostOrderList, Edit.Candidate) = IndexOf(RevPostOrderList, ListIt) + 2

====
